---- MODULE Spec2Model ----
(***************************************************************************)
(* BeliefStake: a fixed-denomination staking ledger that routes principal  *)
(* into a replaceable yield strategy (contracts/BeliefStake.sol and        *)
(* contracts/NullYieldStrategy.sol).                                       *)
(*                                                                         *)
(* The EVM executes one transaction at a time and a revert rolls the whole *)
(* transaction back, so every entry point is one action.  Each contract    *)
(* function is an operator from a world record to a result record          *)
(* [err, s, ret]: err = "" on success, otherwise the name of the error the *)
(* call reverted with; s is the world after the call.                      *)
(***************************************************************************)
EXTENDS Integers, Sequences, FiniteSets, TLC

\* ------------------------------------------------------------------------
\* Program constants
\* ------------------------------------------------------------------------
STAKE_AMOUNT == 2000000

\* type(uint256).max, the "infinite approval" value of the ERC20 allowance.
\* Only its two properties are used: it is never decremented by a spend and
\* it is not smaller than any amount that is spent.
MAX_UINT256 == 2147483647

\* Amount of the unrelated token sent to the ledger by mistake.
RANDOM_TOKEN_AMOUNT == 1000

\* ------------------------------------------------------------------------
\* Bounds of the model
\* ------------------------------------------------------------------------
\* Largest block timestamp reached.
MaxTime == 2
\* Number of direct token transfers the outside donor can make.
MaxDonations == 1
\* Size of one direct token transfer.
DonationUnit == 500000
\* Number of token units that mint can add to what setUp minted.
MaxMinted == 1
\* Number of times RANDOM_TOKEN_AMOUNT of the unrelated token can be minted.
MaxRandomMinted == 1

\* ------------------------------------------------------------------------
\* Addresses
\* ------------------------------------------------------------------------
ZeroAddress == "0x0"
ZeroUID == "0x00"
Ledger == "beliefStake"
Usdc == "usdc"
RandomToken == "randomToken"
FakeUsdc == "fakeUsdc"
DeadVault == "0xdead"
Attacker == "attacker"
Donor == "donor"

Users == {"user1", "user2"}
UIDs == {"uid1", "uid2"}
AnyUID == UIDs \cup {ZeroUID}
Admins == {"owner", "newOwner"}
Callers == Users \cup Admins
\* Senders tried on the owner-only entry points.
AdminCallers == Admins
Treasuries == {"treasury", "newTreasury"}

\* Strategy contracts that exist.  The first four are NullYieldStrategy
\* instances, two of them constructed with a wrong vault or a wrong token.
NullStrategies == {"strategy", "newStrategy", "badVaultStrategy", "badUsdcStrategy"}
MaliciousStrategies == {"maliciousStrategy"}
YieldStrategies == {"aaveStrategy"}
Strategies == NullStrategies \cup MaliciousStrategies \cup YieldStrategies

Addresses == Users \cup Admins \cup Treasuries \cup Strategies
             \cup {Ledger, Attacker, Donor, DeadVault}

\* vault() of a strategy: immutable, fixed by its constructor.
vault(st) == IF st = "badVaultStrategy" THEN DeadVault ELSE Ledger

\* usdc() of a strategy: immutable, fixed by its constructor.
usdc(st) == IF st = "badUsdcStrategy" THEN FakeUsdc ELSE Usdc

NoStake == [amount |-> 0, timestamp |-> 0]

\* ------------------------------------------------------------------------
\* Results of a call
\* ------------------------------------------------------------------------
Ok(s) == [err |-> "", s |-> s, ret |-> 0]
OkRet(s, v) == [err |-> "", s |-> s, ret |-> v]
Revert(s, e) == [err |-> e, s |-> s, ret |-> 0]
\* A call that reverts leaves storage as it found it: the EVM undoes the
\* writes of the reverted frame, those of the calls it made included.
Frame(s, r) == IF r.err = "" THEN r ELSE Revert(s, r.err)
Emit(s, ev) == [s EXCEPT !.log = Append(@, ev)]
\* An event of another contract than the ledger is logged with its emitter.
EmitFrom(s, emitter, ev) == Emit(s, <<emitter, ev>>)

\* ------------------------------------------------------------------------
\* The token (OpenZeppelin ERC20 behind SafeERC20)
\* ------------------------------------------------------------------------
AllowancePairs == (Callers \X {Ledger}) \cup ({Ledger} \X Strategies)
                  \cup {<<DeadVault, "badVaultStrategy">>}

\* usdc.allowance(holder, spender): zero for a pair that never approved.
allowanceOf(s, holder, spender) ==
    IF <<holder, spender>> \in DOMAIN s.allowance THEN s.allowance[<<holder, spender>>]
    ELSE 0

\* usdc.safeTransfer(to, amount) sent by `from`.
safeTransfer(s, from, to, amount) ==
    IF to = ZeroAddress THEN Revert(s, "ERC20InvalidReceiver")
    ELSE IF s.bal[from] < amount THEN Revert(s, "ERC20InsufficientBalance")
    ELSE Ok([s EXCEPT !.bal = [[@ EXCEPT ![from] = @ - amount]
                                   EXCEPT ![to] = @ + amount]])

\* usdc.safeTransferFrom(from, to, amount) sent by `spender`.
safeTransferFrom(s, spender, from, to, amount) ==
    Frame(s,
        LET a == allowanceOf(s, from, spender) IN
        IF a # MAX_UINT256 /\ a < amount THEN Revert(s, "ERC20InsufficientAllowance")
        ELSE LET s1 == IF a = MAX_UINT256 THEN s
                       ELSE [s EXCEPT !.allowance[<<from, spender>>] = a - amount]
             IN safeTransfer(s1, from, to, amount))

\* usdc.forceApprove(spender, amount) sent by `holder`.
forceApprove(s, holder, spender, amount) ==
    [s EXCEPT !.allowance[<<holder, spender>>] = amount]

\* ERC20.approve(spender, value) sent by `holder`: replaces the allowance.
approve(s, holder, spender, value) ==
    IF spender = ZeroAddress THEN Revert(s, "ERC20InvalidSpender")
    ELSE Ok(forceApprove(s, holder, spender, value))

\* MockUSDC.mint(to, amount): anybody may create tokens for anybody.
mint(s, sender, to, amount) ==
    IF to = ZeroAddress THEN Revert(s, "ERC20InvalidReceiver")
    ELSE Ok([s EXCEPT !.bal[to] = @ + amount])

\* ------------------------------------------------------------------------
\* The unrelated ERC20 token of rescueTokens
\* ------------------------------------------------------------------------
random_safeTransfer(s, from, to, amount) ==
    IF to = ZeroAddress THEN Revert(s, "ERC20InvalidReceiver")
    ELSE IF s.randomBal[from] < amount THEN Revert(s, "ERC20InsufficientBalance")
    ELSE Ok([s EXCEPT !.randomBal = [[@ EXCEPT ![from] = @ - amount]
                                         EXCEPT ![to] = @ + amount]])

\* MockUSDC.mint(to, amount) on the unrelated token.
random_mint(s, sender, to, amount) ==
    IF to = ZeroAddress THEN Revert(s, "ERC20InvalidReceiver")
    ELSE Ok([s EXCEPT !.randomBal[to] = @ + amount])

\* ------------------------------------------------------------------------
\* IERC20(token): the token contract a call is sent to.  Three tokens exist:
\* the staking token, the unrelated token, and the second MockUSDC that
\* badUsdcStrategy was constructed with, of which nothing was ever minted and
\* which nobody approved.
\* ------------------------------------------------------------------------
balanceOf(s, token, a) ==
    IF token = Usdc THEN s.bal[a]
    ELSE IF token = RandomToken THEN s.randomBal[a]
    ELSE 0

token_safeTransfer(s, token, from, to, amount) ==
    IF token = Usdc THEN safeTransfer(s, from, to, amount)
    ELSE IF token = RandomToken THEN random_safeTransfer(s, from, to, amount)
    ELSE IF to = ZeroAddress THEN Revert(s, "ERC20InvalidReceiver")
    ELSE IF 0 < amount THEN Revert(s, "ERC20InsufficientBalance")
    ELSE Ok(s)

\* Only the staking token has allowances.
token_safeTransferFrom(s, token, spender, from, to, amount) ==
    IF token = Usdc THEN safeTransferFrom(s, spender, from, to, amount)
    ELSE IF 0 < amount THEN Revert(s, "ERC20InsufficientAllowance")
    ELSE token_safeTransfer(s, token, from, to, amount)

\* ------------------------------------------------------------------------
\* NullYieldStrategy
\* ------------------------------------------------------------------------
\* The nonReentrant modifier of a backend: a call that arrives while another
\* guarded call of the same backend is running is rejected.
null_entered(s, st) == st \in s.locked

null_deposit(s, st, sender, amount) ==
    Frame(s,
        IF sender # vault(st) THEN Revert(s, "OnlyVault")
        ELSE IF null_entered(s, st) THEN Revert(s, "ReentrancyGuardReentrantCall")
        ELSE LET r == token_safeTransferFrom(s, usdc(st), st, sender, st, amount) IN
             IF r.err # "" THEN r
             ELSE Ok(EmitFrom([r.s EXCEPT !.principal[st] = @ + amount], st,
                              <<"Deposited", amount>>)))

\* Mutant: the amount is not compared with the principal; the subtraction
\* underflows instead.
null_withdraw_noCheck(s, st, sender, amount) ==
    Frame(s,
        IF sender # vault(st) THEN Revert(s, "OnlyVault")
        ELSE IF null_entered(s, st) THEN Revert(s, "ReentrancyGuardReentrantCall")
        ELSE IF amount > s.principal[st] THEN Revert(s, "Panic")
        ELSE LET r == token_safeTransfer([s EXCEPT !.principal[st] = @ - amount],
                                         usdc(st), st, sender, amount)
             IN IF r.err # "" THEN r
                ELSE Ok(EmitFrom(r.s, st, <<"Withdrawn", amount>>)))

\* Mutant: the tracked principal is not decremented.
null_withdraw_keepPrincipal(s, st, sender, amount) ==
    Frame(s,
        IF sender # vault(st) THEN Revert(s, "OnlyVault")
        ELSE IF null_entered(s, st) THEN Revert(s, "ReentrancyGuardReentrantCall")
        ELSE IF amount > s.principal[st] THEN Revert(s, "InsufficientBalance")
        ELSE LET r == token_safeTransfer(s, usdc(st), st, sender, amount)
             IN IF r.err # "" THEN r
                ELSE Ok(EmitFrom(r.s, st, <<"Withdrawn", amount>>)))

null_withdraw(s, st, sender, amount) ==
    Frame(s,
        IF sender # vault(st) THEN Revert(s, "OnlyVault")
        ELSE IF null_entered(s, st) THEN Revert(s, "ReentrancyGuardReentrantCall")
        ELSE IF amount > s.principal[st] THEN Revert(s, "InsufficientBalance")
        ELSE LET r == token_safeTransfer([s EXCEPT !.principal[st] = @ - amount],
                                         usdc(st), st, sender, amount)
             IN IF r.err # "" THEN r
                ELSE Ok(EmitFrom(r.s, st, <<"Withdrawn", amount>>)))

\* Mutant: any caller may empty the backend.
null_withdrawAll_anyCaller(s, st, sender) ==
    Frame(s,
        IF null_entered(s, st) THEN Revert(s, "ReentrancyGuardReentrantCall")
        ELSE LET amount == s.principal[st]
                 r == token_safeTransfer([s EXCEPT !.principal[st] = 0],
                                         usdc(st), st, sender, amount)
             IN IF r.err # "" THEN r
                ELSE OkRet(EmitFrom(r.s, st, <<"Withdrawn", amount>>), amount))

\* Mutant: the tracked principal is not reset.
null_withdrawAll_keepPrincipal(s, st, sender) ==
    Frame(s,
        IF sender # vault(st) THEN Revert(s, "OnlyVault")
        ELSE IF null_entered(s, st) THEN Revert(s, "ReentrancyGuardReentrantCall")
        ELSE LET amount == s.principal[st]
                 r == token_safeTransfer(s, usdc(st), st, sender, amount)
             IN IF r.err # "" THEN r
                ELSE OkRet(EmitFrom(r.s, st, <<"Withdrawn", amount>>), amount))

\* withdrawAll emits Withdrawn whatever the amount, zero included.
null_withdrawAll(s, st, sender) ==
    Frame(s,
        IF sender # vault(st) THEN Revert(s, "OnlyVault")
        ELSE IF null_entered(s, st) THEN Revert(s, "ReentrancyGuardReentrantCall")
        ELSE LET amount == s.principal[st]
                 r == token_safeTransfer([s EXCEPT !.principal[st] = 0],
                                         usdc(st), st, sender, amount)
             IN IF r.err # "" THEN r
                ELSE OkRet(EmitFrom(r.s, st, <<"Withdrawn", amount>>), amount))

\* Mutant: whatever the backend holds above its principal goes to the
\* recipient.
null_harvestYield_sweepsSurplus(s, st, sender, recipient) ==
    Frame(s,
        LET surplus == s.bal[st] - s.principal[st]
            r == safeTransfer(s, st, recipient, surplus)
        IN IF r.err # "" THEN r ELSE OkRet(r.s, surplus))

\* harvestYield is pure: no modifier, no state, no event.
null_harvestYield(s, st, sender, recipient) == OkRet(s, 0)

\* The views of NullYieldStrategy.
null_totalValue(s, st) == s.principal[st]

null_principal(s, st) == s.principal[st]

null_pendingYield(s, st) == 0

\* ------------------------------------------------------------------------
\* MaliciousStrategy (test double of the repository's test suite)
\* ------------------------------------------------------------------------
\* ERC20(usdc).transferFrom(msg.sender, attacker, amount)
malicious_deposit(s, st, sender, amount) ==
    Frame(s,
        safeTransferFrom(s, st, sender, Attacker, amount))

malicious_withdraw(s, st, sender, amount) == Revert(s, "no funds lol")

malicious_withdrawAll(s, st, sender) == OkRet(s, 0)

malicious_harvestYield(s, st, sender, recipient) == OkRet(s, 0)

\* ------------------------------------------------------------------------
\* A yield-bearing backend, as the YieldBackend interface describes it:
\* surplus is whatever the backend holds beyond its tracked principal.
\* ------------------------------------------------------------------------
yield_withdrawAll(s, st, sender) ==
    Frame(s,
        IF sender # vault(st) THEN Revert(s, "OnlyVault")
        ELSE LET amount == s.bal[st]
                 r == safeTransfer([s EXCEPT !.principal[st] = 0], st, sender, amount)
             IN IF r.err # "" THEN r ELSE OkRet(r.s, amount))

yield_harvestYield(s, st, sender, recipient) ==
    Frame(s,
        IF sender # vault(st) THEN Revert(s, "OnlyVault")
        ELSE LET surplus == s.bal[st] - s.principal[st]
                 r == safeTransfer(s, st, recipient, surplus)
             IN IF r.err # "" THEN r ELSE OkRet(r.s, surplus))

\* ------------------------------------------------------------------------
\* IYieldStrategy: dynamic dispatch on the strategy's contract
\* ------------------------------------------------------------------------
strategy_deposit(s, st, sender, amount) ==
    IF st \in MaliciousStrategies THEN malicious_deposit(s, st, sender, amount)
    ELSE null_deposit(s, st, sender, amount)

strategy_withdraw(s, st, sender, amount) ==
    IF st \in MaliciousStrategies THEN malicious_withdraw(s, st, sender, amount)
    ELSE null_withdraw(s, st, sender, amount)

strategy_withdrawAll(s, st, sender) ==
    IF st \in MaliciousStrategies THEN malicious_withdrawAll(s, st, sender)
    ELSE IF st \in YieldStrategies THEN yield_withdrawAll(s, st, sender)
    ELSE null_withdrawAll(s, st, sender)

strategy_harvestYield(s, st, sender, recipient) ==
    IF st \in MaliciousStrategies THEN malicious_harvestYield(s, st, sender, recipient)
    ELSE IF st \in YieldStrategies THEN yield_harvestYield(s, st, sender, recipient)
    ELSE null_harvestYield(s, st, sender, recipient)

\* principal() view
strategy_principal(s, st) ==
    IF st \in MaliciousStrategies THEN 0 ELSE s.principal[st]

\* ------------------------------------------------------------------------
\* NullYieldStrategy: owner functions
\* ------------------------------------------------------------------------
\* Mutant: the backend's whole balance of its own token is swept.
null_rescueTokens_sweepsAll(s, st, sender, token, to) ==
    Frame(s,
        IF sender # s.strategyOwner[st] THEN Revert(s, "OwnableUnauthorizedAccount")
        ELSE IF to = ZeroAddress THEN Revert(s, "InvalidAddress")
        ELSE LET amount == balanceOf(s, token, st)
                 r == IF amount > 0 THEN token_safeTransfer(s, token, st, to, amount)
                      ELSE Ok(s)
             IN IF r.err # "" THEN r
                ELSE IF amount > 0
                     THEN Ok(EmitFrom(r.s, st, <<"TokensRescued", token, to, amount>>))
                     ELSE Ok(r.s))

\* NullYieldStrategy.rescueTokens: of its own token only what it holds above
\* its principal, of any other token the whole balance.
null_rescueTokens(s, st, sender, token, to) ==
    Frame(s,
        IF sender # s.strategyOwner[st] THEN Revert(s, "OwnableUnauthorizedAccount")
        ELSE IF to = ZeroAddress THEN Revert(s, "InvalidAddress")
        ELSE LET balance == balanceOf(s, token, st)
                 amount == IF token = usdc(st)
                           THEN (IF balance > s.principal[st]
                                 THEN balance - s.principal[st] ELSE 0)
                           ELSE balance
                 r == IF amount > 0 THEN token_safeTransfer(s, token, st, to, amount)
                      ELSE Ok(s)
             IN IF r.err # "" THEN r
                ELSE IF amount > 0
                     THEN Ok(EmitFrom(r.s, st, <<"TokensRescued", token, to, amount>>))
                     ELSE Ok(r.s))

\* Ownable2Step of a NullYieldStrategy: the backend has an owner of its own,
\* the account that deployed it.
null_transferOwnership(s, st, sender, newOwner) ==
    IF sender # s.strategyOwner[st] THEN Revert(s, "OwnableUnauthorizedAccount")
    ELSE Ok(EmitFrom([s EXCEPT !.strategyPendingOwner[st] = newOwner], st,
                     <<"OwnershipTransferStarted", s.strategyOwner[st], newOwner>>))

null_acceptOwnership(s, st, sender) ==
    IF s.strategyPendingOwner[st] # sender THEN Revert(s, "OwnableUnauthorizedAccount")
    ELSE Ok(EmitFrom([s EXCEPT !.strategyOwner[st] = sender,
                               !.strategyPendingOwner[st] = ZeroAddress], st,
                     <<"OwnershipTransferred", s.strategyOwner[st], sender>>))

null_renounceOwnership(s, st, sender) ==
    IF sender # s.strategyOwner[st] THEN Revert(s, "OwnableUnauthorizedAccount")
    ELSE Ok(EmitFrom([s EXCEPT !.strategyOwner[st] = ZeroAddress,
                               !.strategyPendingOwner[st] = ZeroAddress], st,
                     <<"OwnershipTransferred", s.strategyOwner[st], ZeroAddress>>))

\* ------------------------------------------------------------------------
\* BeliefStake
\* ------------------------------------------------------------------------
\* Mutant: the record holds the claim's running total instead of the stake.
stake_record_runningTotal(s, attestationUID, sender, timestamp) ==
    [s EXCEPT !.stakes[attestationUID][sender] =
                  [amount |-> s.totalStaked[attestationUID] + STAKE_AMOUNT,
                   timestamp |-> timestamp],
              !.totalStaked[attestationUID] = @ + STAKE_AMOUNT,
              !.stakerCount[attestationUID] = @ + 1,
              !.totalPrincipal = @ + STAKE_AMOUNT]

\* Mutant: the claim's depositor count is not incremented.
stake_record_noCount(s, attestationUID, sender, timestamp) ==
    [s EXCEPT !.stakes[attestationUID][sender] =
                  [amount |-> STAKE_AMOUNT, timestamp |-> timestamp],
              !.totalStaked[attestationUID] = @ + STAKE_AMOUNT,
              !.totalPrincipal = @ + STAKE_AMOUNT]

stake_record(s, attestationUID, sender, timestamp) ==
    [s EXCEPT !.stakes[attestationUID][sender] =
                  [amount |-> STAKE_AMOUNT, timestamp |-> timestamp],
              !.totalStaked[attestationUID] = @ + STAKE_AMOUNT,
              !.stakerCount[attestationUID] = @ + 1,
              !.totalPrincipal = @ + STAKE_AMOUNT]

\* Mutant: a failed pull of the tokens is not an error; the stake is recorded
\* without a deposit.
stake_funds_underCredits(s, sender, attestationUID, timestamp) ==
    Frame(s,
        LET r1 == safeTransferFrom(s, Ledger, sender, Ledger, STAKE_AMOUNT) IN
        IF r1.err # ""
        THEN Ok(Emit(stake_record(s, attestationUID, sender, timestamp),
                     <<"Staked", attestationUID, sender, STAKE_AMOUNT, timestamp>>))
        ELSE LET s2 == forceApprove(r1.s, Ledger, r1.s.yieldStrategy, STAKE_AMOUNT)
                 r3 == strategy_deposit(s2, s2.yieldStrategy, Ledger, STAKE_AMOUNT)
             IN IF r3.err # "" THEN r3
                ELSE Ok(Emit(stake_record(r3.s, attestationUID, sender, timestamp),
                             <<"Staked", attestationUID, sender, STAKE_AMOUNT, timestamp>>)))

\* Mutant: the initial backend is not asked for its vault.
constructor_noVaultCheck(s, sender, _usdc, _yieldStrategy, _treasury) ==
    IF _usdc = ZeroAddress THEN Revert(s, "InvalidAddress")
    ELSE IF _yieldStrategy = ZeroAddress THEN Revert(s, "InvalidAddress")
    ELSE IF _treasury = ZeroAddress THEN Revert(s, "InvalidAddress")
    ELSE IF usdc(_yieldStrategy) # _usdc THEN Revert(s, "StrategyMismatch")
    ELSE Ok(Emit([s EXCEPT !.owner = sender, !.yieldStrategy = _yieldStrategy,
                           !.treasury = _treasury],
                 <<"OwnershipTransferred", ZeroAddress, sender>>))

\* constructor(_usdc, _yieldStrategy, _treasury), deployed by sender.
constructor(s, sender, _usdc, _yieldStrategy, _treasury) ==
    IF _usdc = ZeroAddress THEN Revert(s, "InvalidAddress")
    ELSE IF _yieldStrategy = ZeroAddress THEN Revert(s, "InvalidAddress")
    ELSE IF _treasury = ZeroAddress THEN Revert(s, "InvalidAddress")
    ELSE IF vault(_yieldStrategy) # Ledger THEN Revert(s, "StrategyMismatch")
    ELSE IF usdc(_yieldStrategy) # _usdc THEN Revert(s, "StrategyMismatch")
    ELSE Ok(Emit([s EXCEPT !.owner = sender, !.yieldStrategy = _yieldStrategy,
                           !.treasury = _treasury],
                 <<"OwnershipTransferred", ZeroAddress, sender>>))

\* Mutant: the tokens pulled from the depositor are not deposited; they stay
\* on the ledger.
stake_funds_keepsTokens(s, sender, attestationUID, timestamp) ==
    Frame(s,
        LET r1 == safeTransferFrom(s, Ledger, sender, Ledger, STAKE_AMOUNT) IN
        IF r1.err # "" THEN r1
        ELSE Ok(Emit(stake_record(r1.s, attestationUID, sender, timestamp),
                     <<"Staked", attestationUID, sender, STAKE_AMOUNT, timestamp>>)))

\* stake, after its two checks: pull the tokens, deposit them, record the stake.
stake_funds(s, sender, attestationUID, timestamp) ==
    Frame(s,
        LET r1 == safeTransferFrom(s, Ledger, sender, Ledger, STAKE_AMOUNT) IN
        IF r1.err # "" THEN r1
        ELSE LET s2 == forceApprove(r1.s, Ledger, r1.s.yieldStrategy, STAKE_AMOUNT)
                 r3 == strategy_deposit(s2, s2.yieldStrategy, Ledger, STAKE_AMOUNT)
             IN IF r3.err # "" THEN r3
                ELSE Ok(Emit(stake_record(r3.s, attestationUID, sender, timestamp),
                             <<"Staked", attestationUID, sender, STAKE_AMOUNT, timestamp>>)))

\* Mutant: the zero identifier is accepted.
stake_noUidCheck(s, sender, attestationUID, timestamp) ==
    Frame(s,
        IF s.entered THEN Revert(s, "ReentrancyGuardReentrantCall")
        ELSE IF s.stakes[attestationUID][sender].amount # 0 THEN Revert(s, "AlreadyStaked")
        ELSE stake_funds(s, sender, attestationUID, timestamp))

\* Mutant: a second stake on the same claim is accepted as a top-up.
stake_allowTopUp(s, sender, attestationUID, timestamp) ==
    Frame(s,
        IF s.entered THEN Revert(s, "ReentrancyGuardReentrantCall")
        ELSE IF attestationUID = ZeroUID THEN Revert(s, "InvalidAttestationUID")
        ELSE stake_funds(s, sender, attestationUID, timestamp))

stake(s, sender, attestationUID, timestamp) ==
    Frame(s,
        IF s.entered THEN Revert(s, "ReentrancyGuardReentrantCall")
        ELSE IF attestationUID = ZeroUID THEN Revert(s, "InvalidAttestationUID")
        ELSE IF s.stakes[attestationUID][sender].amount # 0 THEN Revert(s, "AlreadyStaked")
        ELSE stake_funds(s, sender, attestationUID, timestamp))

\* Mutant: the record is left in place; only the counters are decremented.
unstake_clear_keepsRecord(s, attestationUID, sender, amount) ==
    [s EXCEPT !.totalStaked[attestationUID] = @ - amount,
              !.stakerCount[attestationUID] = @ - 1,
              !.totalPrincipal = @ - amount]

\* Mutant: totalPrincipal is not decremented.
unstake_clear_keepPrincipal(s, attestationUID, sender, amount) ==
    [s EXCEPT !.stakes[attestationUID][sender] = NoStake,
              !.totalStaked[attestationUID] = @ - amount,
              !.stakerCount[attestationUID] = @ - 1]

\* Mutant: the depositor count is decremented on every claim that has one.
unstake_clear_sharedCount(s, attestationUID, sender, amount) ==
    [s EXCEPT !.stakes[attestationUID][sender] = NoStake,
              !.totalStaked[attestationUID] = @ - amount,
              !.stakerCount = [c \in AnyUID |-> IF @[c] > 0 THEN @[c] - 1 ELSE 0],
              !.totalPrincipal = @ - amount]

\* Mutant: the claim's depositor count is not decremented.
unstake_clear_keepCount(s, attestationUID, sender, amount) ==
    [s EXCEPT !.stakes[attestationUID][sender] = NoStake,
              !.totalStaked[attestationUID] = @ - amount,
              !.totalPrincipal = @ - amount]

\* Mutant: the records of all stakers of the claim are cleared.
unstake_clear_wholeClaim(s, attestationUID, sender, amount) ==
    [s EXCEPT !.stakes[attestationUID] = [u \in Callers |-> NoStake],
              !.totalStaked[attestationUID] = @ - amount,
              !.stakerCount[attestationUID] = @ - 1,
              !.totalPrincipal = @ - amount]

unstake_clear(s, attestationUID, sender, amount) ==
    [s EXCEPT !.stakes[attestationUID][sender] = NoStake,
              !.totalStaked[attestationUID] = @ - amount,
              !.stakerCount[attestationUID] = @ - 1,
              !.totalPrincipal = @ - amount]

\* Mutant: the tokens withdrawn from the backend are not paid out.
unstake_funds_noPayout(s, sender, attestationUID, amount) ==
    Frame(s,
        IF \/ s.totalStaked[attestationUID] < amount
           \/ s.stakerCount[attestationUID] < 1
           \/ s.totalPrincipal < amount
        THEN Revert(s, "Panic")
        ELSE LET s1 == unstake_clear(s, attestationUID, sender, amount)
                 r2 == strategy_withdraw(s1, s1.yieldStrategy, Ledger, amount)
             IN IF r2.err # "" THEN r2
                ELSE Ok(Emit(r2.s, <<"Unstaked", attestationUID, sender, amount>>)))

\* Mutant: no Unstaked event is emitted.
unstake_funds_noEvent(s, sender, attestationUID, amount) ==
    Frame(s,
        IF \/ s.totalStaked[attestationUID] < amount
           \/ s.stakerCount[attestationUID] < 1
           \/ s.totalPrincipal < amount
        THEN Revert(s, "Panic")
        ELSE LET s1 == unstake_clear(s, attestationUID, sender, amount)
                 r2 == strategy_withdraw(s1, s1.yieldStrategy, Ledger, amount)
             IN IF r2.err # "" THEN r2
                ELSE safeTransfer(r2.s, Ledger, sender, amount))

\* unstake, after its check: clear the record, withdraw, pay the staker.
unstake_funds(s, sender, attestationUID, amount) ==
    Frame(s,
        IF \/ s.totalStaked[attestationUID] < amount
           \/ s.stakerCount[attestationUID] < 1
           \/ s.totalPrincipal < amount
        THEN Revert(s, "Panic")
        ELSE LET s1 == unstake_clear(s, attestationUID, sender, amount)
                 r2 == strategy_withdraw(s1, s1.yieldStrategy, Ledger, amount)
             IN IF r2.err # "" THEN r2
                ELSE LET r3 == safeTransfer(r2.s, Ledger, sender, amount) IN
                     IF r3.err # "" THEN r3
                     ELSE Ok(Emit(r3.s, <<"Unstaked", attestationUID, sender, amount>>)))

\* Mutant: a caller without a stake is not rejected.
unstake_noCheck(s, sender, attestationUID) ==
    Frame(s,
        IF s.entered THEN Revert(s, "ReentrancyGuardReentrantCall")
        ELSE unstake_funds(s, sender, attestationUID, s.stakes[attestationUID][sender].amount))

unstake(s, sender, attestationUID) ==
    Frame(s,
        LET amount == s.stakes[attestationUID][sender].amount IN
        IF s.entered THEN Revert(s, "ReentrancyGuardReentrantCall")
        ELSE IF amount = 0 THEN Revert(s, "NoStakeFound")
        ELSE unstake_funds(s, sender, attestationUID, amount))

\* totalValue() view
totalValue(s) ==
    IF s.yieldStrategy \in MaliciousStrategies THEN 0
    ELSE IF s.yieldStrategy \in YieldStrategies THEN s.bal[s.yieldStrategy]
    ELSE s.principal[s.yieldStrategy]

\* Mutant: the excess stays on the ledger.
migrate_excess_keepsYield(s, withdrawn, oldStrategy, newStrategy) ==
    IF withdrawn < s.totalPrincipal THEN Revert(s, "Panic")
    ELSE Ok(Emit(s, <<"StrategyMigrated", oldStrategy, newStrategy, s.totalPrincipal>>))

\* Mutant: YieldHarvested is emitted whether or not there is an excess.
migrate_excess_alwaysHarvested(s, withdrawn, oldStrategy, newStrategy) ==
    IF withdrawn < s.totalPrincipal THEN Revert(s, "Panic")
    ELSE LET excess == withdrawn - s.totalPrincipal
             r == IF excess > 0 THEN safeTransfer(s, Ledger, s.treasury, excess) ELSE Ok(s)
         IN IF r.err # "" THEN r
            ELSE Ok(Emit(Emit(r.s, <<"YieldHarvested", excess, s.treasury>>),
                         <<"StrategyMigrated", oldStrategy, newStrategy, s.totalPrincipal>>))

migrate_excess(s, withdrawn, oldStrategy, newStrategy) ==
    IF withdrawn < s.totalPrincipal THEN Revert(s, "Panic")
    ELSE LET excess == withdrawn - s.totalPrincipal
             done(x) == Ok(Emit(x, <<"StrategyMigrated", oldStrategy, newStrategy,
                                     s.totalPrincipal>>))
         IN IF excess > 0
            THEN LET r == safeTransfer(s, Ledger, s.treasury, excess) IN
                 IF r.err # "" THEN r
                 ELSE done(Emit(r.s, <<"YieldHarvested", excess, s.treasury>>))
            ELSE done(s)

\* Mutant: the ledger's principal is reset once the old backend is emptied.
migrateYieldStrategy_zeroesPrincipal(s, sender, newStrategy) ==
    Frame(s,
        IF sender # s.owner THEN Revert(s, "OwnableUnauthorizedAccount")
        ELSE IF s.entered THEN Revert(s, "ReentrancyGuardReentrantCall")
        ELSE IF newStrategy = ZeroAddress THEN Revert(s, "InvalidAddress")
        ELSE IF vault(newStrategy) # Ledger THEN Revert(s, "StrategyMismatch")
        ELSE IF usdc(newStrategy) # Usdc THEN Revert(s, "StrategyMismatch")
        ELSE LET oldStrategy == s.yieldStrategy
                 r1 == strategy_withdrawAll(s, oldStrategy, Ledger)
             IN IF r1.err # "" THEN r1
                ELSE LET withdrawn == r1.ret
                         s2 == [r1.s EXCEPT !.yieldStrategy = newStrategy,
                                            !.totalPrincipal = 0]
                         s3 == forceApprove(s2, Ledger, newStrategy, s2.totalPrincipal)
                         r4 == strategy_deposit(s3, newStrategy, Ledger, s3.totalPrincipal)
                     IN IF r4.err # "" THEN r4
                        ELSE migrate_excess(r4.s, withdrawn, oldStrategy, newStrategy))

\* Mutant: vault() of the new backend is not compared with the ledger.
migrateYieldStrategy_noVaultCheck(s, sender, newStrategy) ==
    Frame(s,
        IF sender # s.owner THEN Revert(s, "OwnableUnauthorizedAccount")
        ELSE IF s.entered THEN Revert(s, "ReentrancyGuardReentrantCall")
        ELSE IF newStrategy = ZeroAddress THEN Revert(s, "InvalidAddress")
        ELSE IF usdc(newStrategy) # Usdc THEN Revert(s, "StrategyMismatch")
        ELSE LET oldStrategy == s.yieldStrategy
                 r1 == strategy_withdrawAll(s, oldStrategy, Ledger)
             IN IF r1.err # "" THEN r1
                ELSE LET withdrawn == r1.ret
                         s2 == [r1.s EXCEPT !.yieldStrategy = newStrategy]
                         s3 == forceApprove(s2, Ledger, newStrategy, s2.totalPrincipal)
                         r4 == strategy_deposit(s3, newStrategy, Ledger, s3.totalPrincipal)
                     IN IF r4.err # "" THEN r4
                        ELSE migrate_excess(r4.s, withdrawn, oldStrategy, newStrategy))

\* Mutant: the strategy pointer is not updated.
migrateYieldStrategy_noRepoint(s, sender, newStrategy) ==
    Frame(s,
        IF sender # s.owner THEN Revert(s, "OwnableUnauthorizedAccount")
        ELSE IF s.entered THEN Revert(s, "ReentrancyGuardReentrantCall")
        ELSE IF newStrategy = ZeroAddress THEN Revert(s, "InvalidAddress")
        ELSE IF vault(newStrategy) # Ledger THEN Revert(s, "StrategyMismatch")
        ELSE IF usdc(newStrategy) # Usdc THEN Revert(s, "StrategyMismatch")
        ELSE LET oldStrategy == s.yieldStrategy
                 r1 == strategy_withdrawAll(s, oldStrategy, Ledger)
             IN IF r1.err # "" THEN r1
                ELSE LET withdrawn == r1.ret
                         s3 == forceApprove(r1.s, Ledger, newStrategy, r1.s.totalPrincipal)
                         r4 == strategy_deposit(s3, newStrategy, Ledger, s3.totalPrincipal)
                     IN IF r4.err # "" THEN r4
                        ELSE migrate_excess(r4.s, withdrawn, oldStrategy, newStrategy))

migrateYieldStrategy(s, sender, newStrategy) ==
    Frame(s,
        IF sender # s.owner THEN Revert(s, "OwnableUnauthorizedAccount")
        ELSE IF s.entered THEN Revert(s, "ReentrancyGuardReentrantCall")
        ELSE IF newStrategy = ZeroAddress THEN Revert(s, "InvalidAddress")
        ELSE IF vault(newStrategy) # Ledger THEN Revert(s, "StrategyMismatch")
        ELSE IF usdc(newStrategy) # Usdc THEN Revert(s, "StrategyMismatch")
        ELSE LET oldStrategy == s.yieldStrategy
                 r1 == strategy_withdrawAll(s, oldStrategy, Ledger)
             IN IF r1.err # "" THEN r1
                ELSE LET withdrawn == r1.ret
                         s2 == [r1.s EXCEPT !.yieldStrategy = newStrategy]
                         s3 == forceApprove(s2, Ledger, newStrategy, s2.totalPrincipal)
                         r4 == strategy_deposit(s3, newStrategy, Ledger, s3.totalPrincipal)
                     IN IF r4.err # "" THEN r4
                        ELSE migrate_excess(r4.s, withdrawn, oldStrategy, newStrategy))

\* Mutant: YieldHarvested is emitted whatever the amount.
harvestYield_alwaysEmits(s, sender) ==
    Frame(s,
        LET r == strategy_harvestYield(s, s.yieldStrategy, Ledger, s.treasury) IN
        IF s.entered THEN Revert(s, "ReentrancyGuardReentrantCall")
        ELSE IF r.err # "" THEN r
        ELSE Ok(Emit(r.s, <<"YieldHarvested", r.ret, s.treasury>>)))

harvestYield(s, sender) ==
    Frame(s,
        LET r == strategy_harvestYield(s, s.yieldStrategy, Ledger, s.treasury) IN
        IF s.entered THEN Revert(s, "ReentrancyGuardReentrantCall")
        ELSE IF r.err # "" THEN r
        ELSE IF r.ret > 0 THEN Ok(Emit(r.s, <<"YieldHarvested", r.ret, s.treasury>>))
        ELSE Ok(r.s))

\* Mutant: any caller may replace the treasury.
setTreasury_noOwnerCheck(s, sender, newTreasury) ==
    IF newTreasury = ZeroAddress THEN Revert(s, "InvalidAddress")
    ELSE Ok(Emit([s EXCEPT !.treasury = newTreasury],
                 <<"TreasuryUpdated", s.treasury, newTreasury>>))

\* Mutant: the zero address is accepted as treasury.
setTreasury_noZeroCheck(s, sender, newTreasury) ==
    IF sender # s.owner THEN Revert(s, "OwnableUnauthorizedAccount")
    ELSE Ok(Emit([s EXCEPT !.treasury = newTreasury],
                 <<"TreasuryUpdated", s.treasury, newTreasury>>))

setTreasury(s, sender, newTreasury) ==
    IF sender # s.owner THEN Revert(s, "OwnableUnauthorizedAccount")
    ELSE IF newTreasury = ZeroAddress THEN Revert(s, "InvalidAddress")
    ELSE Ok(Emit([s EXCEPT !.treasury = newTreasury],
                 <<"TreasuryUpdated", s.treasury, newTreasury>>))

rescueTokens(s, sender, token, to) ==
    Frame(s,
        IF sender # s.owner THEN Revert(s, "OwnableUnauthorizedAccount")
        ELSE IF token = Usdc
             THEN LET balance == s.bal[Ledger] IN
                  IF balance > 0 THEN safeTransfer(s, Ledger, to, balance) ELSE Ok(s)
             ELSE LET balance == balanceOf(s, token, Ledger) IN
                  token_safeTransfer(s, token, Ledger, to, balance))

\* ------------------------------------------------------------------------
\* The external calls of an entry point, in the order it makes them, each with
\* the world the callee is entered in.  An entry point marked nonReentrant
\* has set the guard before its first call.  The list is that of a call that
\* has passed the entry point's checks; it ends at the first call that fails.
\* ------------------------------------------------------------------------
ExternalCall(to, fn, arg, w) == [to |-> to, fn |-> fn, arg |-> arg, w |-> w]

nonReentrantBefore(s) == [s EXCEPT !.entered = TRUE]

stake_calls(s, sender, attestationUID, timestamp) ==
    LET s0 == nonReentrantBefore(s)
        c1 == ExternalCall(Usdc, "transferFrom", STAKE_AMOUNT, s0)
        r1 == safeTransferFrom(s0, Ledger, sender, Ledger, STAKE_AMOUNT)
    IN IF r1.err # "" THEN <<c1>>
       ELSE LET c2 == ExternalCall(Usdc, "approve", STAKE_AMOUNT, r1.s)
                s2 == forceApprove(r1.s, Ledger, r1.s.yieldStrategy, STAKE_AMOUNT)
                c3 == ExternalCall(s2.yieldStrategy, "deposit", STAKE_AMOUNT, s2)
            IN <<c1, c2, c3>>

\* Mutant: the backend is asked for the tokens before the books are updated.
unstake_calls_interactionsFirst(s, sender, attestationUID) ==
    LET amount == s.stakes[attestationUID][sender].amount
        s0 == nonReentrantBefore(s)
        c1 == ExternalCall(s0.yieldStrategy, "withdraw", amount, s0)
        r2 == strategy_withdraw(s0, s0.yieldStrategy, Ledger, amount)
    IN IF r2.err # "" THEN <<c1>>
       ELSE <<c1, ExternalCall(Usdc, "transfer", amount, r2.s)>>

unstake_calls(s, sender, attestationUID) ==
    LET amount == s.stakes[attestationUID][sender].amount
        s1 == unstake_clear(nonReentrantBefore(s), attestationUID, sender, amount)
        c1 == ExternalCall(s1.yieldStrategy, "withdraw", amount, s1)
        r2 == strategy_withdraw(s1, s1.yieldStrategy, Ledger, amount)
    IN IF r2.err # "" THEN <<c1>>
       ELSE <<c1, ExternalCall(Usdc, "transfer", amount, r2.s)>>

\* Mutant: the strategy pointer is updated after the deposit.
migrate_calls_repointsLast(s, sender, newStrategy) ==
    LET s0 == nonReentrantBefore(s)
        oldStrategy == s0.yieldStrategy
        c1 == ExternalCall(oldStrategy, "withdrawAll", 0, s0)
        r1 == strategy_withdrawAll(s0, oldStrategy, Ledger)
    IN IF r1.err # "" THEN <<c1>>
       ELSE LET withdrawn == r1.ret
                s2 == r1.s
                c2 == ExternalCall(Usdc, "approve", s2.totalPrincipal, s2)
                s3 == forceApprove(s2, Ledger, newStrategy, s2.totalPrincipal)
                c3 == ExternalCall(newStrategy, "deposit", s3.totalPrincipal, s3)
                r4 == strategy_deposit(s3, newStrategy, Ledger, s3.totalPrincipal)
                s5 == [r4.s EXCEPT !.yieldStrategy = newStrategy]
            IN IF r4.err # "" \/ withdrawn <= s5.totalPrincipal THEN <<c1, c2, c3>>
               ELSE <<c1, c2, c3,
                      ExternalCall(Usdc, "transfer", withdrawn - s5.totalPrincipal, s5)>>

migrate_calls(s, sender, newStrategy) ==
    LET s0 == nonReentrantBefore(s)
        oldStrategy == s0.yieldStrategy
        c1 == ExternalCall(oldStrategy, "withdrawAll", 0, s0)
        r1 == strategy_withdrawAll(s0, oldStrategy, Ledger)
    IN IF r1.err # "" THEN <<c1>>
       ELSE LET withdrawn == r1.ret
                s2 == [r1.s EXCEPT !.yieldStrategy = newStrategy]
                c2 == ExternalCall(Usdc, "approve", s2.totalPrincipal, s2)
                s3 == forceApprove(s2, Ledger, newStrategy, s2.totalPrincipal)
                c3 == ExternalCall(newStrategy, "deposit", s3.totalPrincipal, s3)
                r4 == strategy_deposit(s3, newStrategy, Ledger, s3.totalPrincipal)
            IN IF r4.err # "" \/ withdrawn <= r4.s.totalPrincipal THEN <<c1, c2, c3>>
               ELSE <<c1, c2, c3,
                      ExternalCall(Usdc, "transfer", withdrawn - r4.s.totalPrincipal,
                                   r4.s)>>

harvest_calls(s, sender) ==
    LET s0 == nonReentrantBefore(s) IN
    <<ExternalCall(s0.yieldStrategy, "harvestYield", 0, s0)>>

\* rescueTokens is not marked nonReentrant: the guard is as the caller left it.
rescue_calls(s, sender, token, to) ==
    IF token = Usdc
    THEN IF s.bal[Ledger] > 0
         THEN <<ExternalCall(Usdc, "transfer", s.bal[Ledger], s)>>
         ELSE <<>>
    ELSE <<ExternalCall(token, "transfer", balanceOf(s, token, Ledger), s)>>

\* setTreasury makes no external call.
setTreasury_calls(s, sender, newTreasury) == <<>>

\* Ownable2Step
transferOwnership(s, sender, newOwner) ==
    IF sender # s.owner THEN Revert(s, "OwnableUnauthorizedAccount")
    ELSE Ok(Emit([s EXCEPT !.pendingOwner = newOwner],
                 <<"OwnershipTransferStarted", s.owner, newOwner>>))

acceptOwnership(s, sender) ==
    IF s.pendingOwner # sender THEN Revert(s, "OwnableUnauthorizedAccount")
    ELSE Ok(Emit([s EXCEPT !.owner = sender, !.pendingOwner = ZeroAddress],
                 <<"OwnershipTransferred", s.owner, sender>>))

\* Ownable.renounceOwnership, which Ownable2Step inherits unchanged: the owner
\* leaves the contract without an owner and the nomination is dropped.
renounceOwnership(s, sender) ==
    IF sender # s.owner THEN Revert(s, "OwnableUnauthorizedAccount")
    ELSE Ok(Emit([s EXCEPT !.owner = ZeroAddress, !.pendingOwner = ZeroAddress],
                 <<"OwnershipTransferred", s.owner, ZeroAddress>>))

\* ------------------------------------------------------------------------
\* State
\* ------------------------------------------------------------------------
VARIABLES
    bal,            \* usdc.balanceOf
    allowance,      \* usdc.allowance, for the pairs that are used
    randomBal,      \* balanceOf of the unrelated token
    stakes,         \* BeliefStake.stakes
    totalStaked,    \* BeliefStake.totalStaked
    stakerCount,    \* BeliefStake.stakerCount
    totalPrincipal, \* BeliefStake.totalPrincipal
    yieldStrategy,  \* BeliefStake.yieldStrategy
    treasury,       \* BeliefStake.treasury
    owner,          \* Ownable.owner()
    pendingOwner,   \* Ownable2Step.pendingOwner()
    principal,      \* _principal of each strategy
    strategyOwner,  \* Ownable.owner() of each NullYieldStrategy
    strategyPendingOwner, \* Ownable2Step.pendingOwner() of each NullYieldStrategy
    now,            \* block.timestamp
    deployed,       \* the strategy contracts that have been deployed
    events,         \* events the ledger and its backends emitted in the last
                    \* transaction (the token's Transfer and Approval are not
                    \* recorded)
    last            \* the last transaction: entry point, sender, arguments, outcome

ledgerVars == <<stakes, totalStaked, stakerCount, totalPrincipal, yieldStrategy,
                treasury, owner, pendingOwner>>
worldVars == <<bal, allowance, randomBal, stakes, totalStaked, stakerCount,
               totalPrincipal, yieldStrategy, treasury, owner, pendingOwner, principal,
               strategyOwner, strategyPendingOwner>>
vars == <<bal, allowance, randomBal, stakes, totalStaked, stakerCount, totalPrincipal,
          yieldStrategy, treasury, owner, pendingOwner, principal, strategyOwner,
          strategyPendingOwner, now, deployed, events, last>>

\* The world a transaction starts in.
Cur ==
    [bal |-> bal, allowance |-> allowance, randomBal |-> randomBal,
     stakes |-> stakes, totalStaked |-> totalStaked, stakerCount |-> stakerCount,
     totalPrincipal |-> totalPrincipal, yieldStrategy |-> yieldStrategy,
     treasury |-> treasury, owner |-> owner, pendingOwner |-> pendingOwner,
     principal |-> principal, strategyOwner |-> strategyOwner,
     strategyPendingOwner |-> strategyPendingOwner,
     entered |-> FALSE, locked |-> {}, log |-> <<>>]

Call(op, sender, arg, arg2) == [op |-> op, sender |-> sender, arg |-> arg, arg2 |-> arg2]

\* A transaction either commits the world it computed or reverts to the world
\* it started in; a reverted transaction emits nothing.
Commit(r, call) ==
    LET t == IF r.err = "" THEN r.s ELSE Cur IN
    /\ bal' = t.bal
    /\ allowance' = t.allowance
    /\ randomBal' = t.randomBal
    /\ stakes' = t.stakes
    /\ totalStaked' = t.totalStaked
    /\ stakerCount' = t.stakerCount
    /\ totalPrincipal' = t.totalPrincipal
    /\ yieldStrategy' = t.yieldStrategy
    /\ treasury' = t.treasury
    /\ owner' = t.owner
    /\ pendingOwner' = t.pendingOwner
    /\ principal' = t.principal
    /\ strategyOwner' = t.strategyOwner
    /\ strategyPendingOwner' = t.strategyPendingOwner
    /\ events' = t.log
    /\ last' = [op |-> call.op, sender |-> call.sender, arg |-> call.arg,
                arg2 |-> call.arg2, err |-> r.err]
    /\ UNCHANGED <<now, deployed>>

\* setUp of the test suite: the ledger is deployed on the first
\* NullYieldStrategy and the token holders have approved the contract they
\* deposit into.  A scenario fixes what every address holds and how much of
\* the unrelated token sits on the ledger.
InitState(holdings, randomAmount) ==
    /\ bal = [a \in Addresses |-> holdings[a]]
    /\ allowance = [p \in AllowancePairs |->
                       IF p[1] \in Users \cup {DeadVault} THEN MAX_UINT256 ELSE 0]
    /\ randomBal = [a \in Addresses |-> IF a = Ledger THEN randomAmount ELSE 0]
    /\ stakes = [c \in AnyUID |-> [u \in Callers |-> NoStake]]
    /\ totalStaked = [c \in AnyUID |-> 0]
    /\ stakerCount = [c \in AnyUID |-> 0]
    /\ totalPrincipal = 0
    /\ yieldStrategy = "strategy"
    /\ treasury = "treasury"
    /\ owner = "owner"
    /\ pendingOwner = ZeroAddress
    /\ principal = [st \in Strategies |-> 0]
    /\ strategyOwner = [st \in NullStrategies |-> "owner"]
    /\ strategyPendingOwner = [st \in NullStrategies |-> ZeroAddress]
    /\ now = 1
    /\ events = <<>>
    /\ last = [op |-> "constructor", sender |-> "owner", arg |-> "strategy",
               arg2 |-> "treasury", err |-> ""]

\* A scenario in which the users hold userBal and the outside donor can make
\* `donations` direct transfers.
InitWorld(userBal, donations, randomAmount) ==
    InitState([a \in Addresses |->
                  IF a \in Users THEN userBal[a]
                  ELSE IF a = Donor THEN donations * DonationUnit
                  ELSE 0],
              randomAmount)

\* user1 can pay for two stakes, user2 for one stake and is one unit short of
\* a second.
TwoStakers == [u \in Users |-> IF u = "user1" THEN 2 * STAKE_AMOUNT
                               ELSE 2 * STAKE_AMOUNT - 1]

\* user1 can pay for one stake, user2 is one unit short of a stake.
OneStaker == [u \in Users |-> IF u = "user1" THEN STAKE_AMOUNT ELSE STAKE_AMOUNT - 1]

\* Only NullYieldStrategy instances exist; nobody sends tokens to a contract
\* directly.
Init == InitWorld(TwoStakers, 0, 0) /\ deployed = NullStrategies

\* A yield-bearing backend exists as well, and one direct transfer can reach
\* the ledger or the active backend from outside.
InitYield ==
    /\ InitWorld(OneStaker, 1, 0)
    /\ deployed = {"strategy"} \cup YieldStrategies

\* A second NullYieldStrategy is bound to another vault, an account that
\* holds tokens and has approved that backend.
InitBackend ==
    /\ InitState([a \in Addresses |->
                     IF a = "user1" THEN STAKE_AMOUNT
                     ELSE IF a = DeadVault THEN (MaxDonations + 1) * DonationUnit
                     ELSE 0],
                 0)
    /\ deployed = {"strategy", "badVaultStrategy"}

\* Only NullYieldStrategy instances exist; one direct transfer can reach the
\* ledger or the active backend, and an unrelated token sits on the ledger.
InitSurplus ==
    /\ InitWorld(OneStaker, 1, RANDOM_TOKEN_AMOUNT)
    /\ deployed = {"strategy", "newStrategy"}

\* The bootstrap NullYieldStrategy is the only backend; one direct transfer
\* can reach the ledger or the backend; nothing of the unrelated token has
\* been minted yet.
InitRescue ==
    /\ InitWorld(OneStaker, 1, 0)
    /\ deployed = {"strategy"}

\* The ledger has not been deployed yet: the token, the users with their
\* approvals and the NullYieldStrategy instances exist.
InitUndeployed ==
    /\ bal = [a \in Addresses |-> IF a \in Users THEN OneStaker[a] ELSE 0]
    /\ allowance = [p \in AllowancePairs |->
                       IF p[1] \in Users \cup {DeadVault} THEN MAX_UINT256 ELSE 0]
    /\ randomBal = [a \in Addresses |-> 0]
    /\ stakes = [c \in AnyUID |-> [u \in Callers |-> NoStake]]
    /\ totalStaked = [c \in AnyUID |-> 0]
    /\ stakerCount = [c \in AnyUID |-> 0]
    /\ totalPrincipal = 0
    /\ yieldStrategy = ZeroAddress
    /\ treasury = ZeroAddress
    /\ owner = ZeroAddress
    /\ pendingOwner = ZeroAddress
    /\ principal = [st \in Strategies |-> 0]
    /\ strategyOwner = [st \in NullStrategies |-> "owner"]
    /\ strategyPendingOwner = [st \in NullStrategies |-> ZeroAddress]
    /\ now = 1
    /\ events = <<>>
    /\ last = [op |-> "none", sender |-> "", arg |-> "", arg2 |-> "", err |-> ""]
    /\ deployed = NullStrategies

\* Any implementation of IYieldStrategy may exist, and one direct transfer
\* can reach the ledger or the active backend.
InitOpen ==
    /\ InitWorld(OneStaker, 1, 0)
    /\ deployed = {"strategy"} \cup MaliciousStrategies

\* ------------------------------------------------------------------------
\* Transactions
\* ------------------------------------------------------------------------
RECURSIVE SumOver(_, _)
SumOver(f, S) ==
    IF S = {} THEN 0
    ELSE LET x == CHOOSE y \in S : TRUE IN f[x] + SumOver(f, S \ {x})

Stake(u, c) == Commit(stake(Cur, u, c, now), Call("stake", u, c, ""))

Unstake(u, c) == Commit(unstake(Cur, u, c), Call("unstake", u, c, ""))

MigrateYieldStrategy(u, st) ==
    Commit(migrateYieldStrategy(Cur, u, st), Call("migrateYieldStrategy", u, st, ""))

HarvestYield(u) == Commit(harvestYield(Cur, u), Call("harvestYield", u, "", ""))

SetTreasury(u, t) == Commit(setTreasury(Cur, u, t), Call("setTreasury", u, t, ""))

RescueTokens(u, token, to) ==
    Commit(rescueTokens(Cur, u, token, to), Call("rescueTokens", u, token, to))

TransferOwnership(u, n) ==
    Commit(transferOwnership(Cur, u, n), Call("transferOwnership", u, n, ""))

AcceptOwnership(u) == Commit(acceptOwnership(Cur, u), Call("acceptOwnership", u, "", ""))

RenounceOwnership(u) ==
    Commit(renounceOwnership(Cur, u), Call("renounceOwnership", u, "", ""))

\* usdc.transfer(to, DonationUnit) by an outside holder, straight to a contract.
Donate(to) ==
    Commit(safeTransfer(Cur, Donor, to, DonationUnit), Call("transfer", Donor, to, ""))

\* usdc.approve(beliefStake, value) by a depositor: the allowance can be
\* revoked, limited to one stake or two, or made unlimited again.
ApprovedValues == {0, STAKE_AMOUNT, 2 * STAKE_AMOUNT, MAX_UINT256}

Approve(u, value) ==
    Commit(approve(Cur, u, Ledger, value), Call("approve", u, Ledger, ToString(value)))

\* usdc.transfer(to, amount) by any holder.
Transfer(u, to, amount) ==
    Commit(safeTransfer(Cur, u, to, amount), Call("transfer", u, to, ToString(amount)))

\* What setUp has minted in the scenario with one staker.
OneStakerSupply == STAKE_AMOUNT + (STAKE_AMOUNT - 1)

\* usdc.mint(to, 1) by anybody, until MaxMinted units have been added.
Mint(u, to) ==
    /\ SumOver(bal, Addresses) < OneStakerSupply + MaxMinted
    /\ Commit(mint(Cur, u, to, 1), Call("mint", u, to, "1"))

\* randomToken.mint(to, RANDOM_TOKEN_AMOUNT) by anybody, MaxRandomMinted times.
MintRandom(u, to) ==
    /\ SumOver(randomBal, Addresses) < MaxRandomMinted * RANDOM_TOKEN_AMOUNT
    /\ Commit(random_mint(Cur, u, to, RANDOM_TOKEN_AMOUNT),
              Call("randomToken.mint", u, to, ToString(RANDOM_TOKEN_AMOUNT)))

\* randomToken.transfer(to, amount) by any holder.
TransferRandom(u, to, amount) ==
    Commit(random_safeTransfer(Cur, u, to, amount),
           Call("randomToken.transfer", u, to, ToString(amount)))

\* Direct calls of a backend's external functions by an account, outside any
\* ledger transaction.
BackendCallers == {"user1", DeadVault}

BackendAmounts == {DonationUnit, 2 * DonationUnit}

StrategyDeposit(u, st, amount) ==
    Commit(strategy_deposit(Cur, st, u, amount),
           Call("strategy.deposit", u, st, ToString(amount)))

StrategyWithdraw(u, st, amount) ==
    Commit(strategy_withdraw(Cur, st, u, amount),
           Call("strategy.withdraw", u, st, ToString(amount)))

StrategyWithdrawAll(u, st) ==
    Commit(strategy_withdrawAll(Cur, st, u), Call("strategy.withdrawAll", u, st, ""))

StrategyHarvestYield(u, st, recipient) ==
    Commit(strategy_harvestYield(Cur, st, u, recipient),
           Call("strategy.harvestYield", u, st, recipient))

\* rescueTokens of a NullYieldStrategy, called on the backend itself.
StrategyRescueTokens(u, st, token, to) ==
    Commit(null_rescueTokens(Cur, st, u, token, to),
           Call("strategy.rescueTokens", u, st, <<token, to>>))

\* Ownable2Step of a NullYieldStrategy, called on the backend itself.
StrategyTransferOwnership(u, st, n) ==
    Commit(null_transferOwnership(Cur, st, u, n),
           Call("strategy.transferOwnership", u, st, n))

StrategyAcceptOwnership(u, st) ==
    Commit(null_acceptOwnership(Cur, st, u), Call("strategy.acceptOwnership", u, st, ""))

StrategyRenounceOwnership(u, st) ==
    Commit(null_renounceOwnership(Cur, st, u),
           Call("strategy.renounceOwnership", u, st, ""))

\* A later block is mined: no transaction has run in it yet.
Tick ==
    /\ now < MaxTime
    /\ now' = now + 1
    /\ events' = <<>>
    /\ last' = [op |-> "block", sender |-> "", arg |-> "", arg2 |-> "", err |-> ""]
    /\ UNCHANGED <<worldVars, deployed>>

Next ==
    \/ \E u \in Users, c \in AnyUID : Stake(u, c)
    \/ \E u \in Users, c \in AnyUID : Unstake(u, c)
    \/ \E u \in AdminCallers, st \in deployed \cup {ZeroAddress} : MigrateYieldStrategy(u, st)
    \/ \E u \in {"user1", "owner"} : HarvestYield(u)
    \/ \E u \in AdminCallers, t \in Treasuries \cup {ZeroAddress} : SetTreasury(u, t)
    \/ \E u \in AdminCallers, token \in {Usdc, RandomToken} : RescueTokens(u, token, "owner")
    \/ \E u \in AdminCallers : TransferOwnership(u, "newOwner")
    \/ \E u \in AdminCallers : AcceptOwnership(u)
    \/ \E u \in AdminCallers : RenounceOwnership(u)
    \/ \E to \in {Ledger, yieldStrategy} : Donate(to)
    \/ Tick

Spec == Init /\ [][Next]_vars

SpecYield == InitYield /\ [][Next]_vars

SpecOpen == InitOpen /\ [][Next]_vars

SpecSurplus == InitSurplus /\ [][Next]_vars

\* The ledger's transactions interleaved with direct calls of the backends.
NextBackend ==
    \/ Next
    \/ \E u \in BackendCallers, st \in deployed, amount \in BackendAmounts :
          StrategyDeposit(u, st, amount)
    \/ \E u \in BackendCallers, st \in deployed, amount \in BackendAmounts :
          StrategyWithdraw(u, st, amount)
    \/ \E u \in BackendCallers, st \in deployed : StrategyWithdrawAll(u, st)
    \/ \E u \in BackendCallers, st \in deployed : StrategyHarvestYield(u, st, "treasury")

SpecBackend == InitBackend /\ [][NextBackend]_vars

\* The transactions that move tokens or touch a backend, with stakes on one
\* claim (the only depositor with funds can pay for one), interleaved with the
\* owner functions of the backends: rescueTokens and the backend's own
\* Ownable2Step.  The ledger's rescueTokens may name a backend as the
\* recipient; the unrelated token is minted to the ledger and sent back to
\* it by the account that rescued it.  The ledger's treasury and ownership,
\* which no backend reads, stay as deployed.
NextRescue ==
    \/ \E u \in Users, c \in {"uid1", ZeroUID} : Stake(u, c)
    \/ \E u \in Users, c \in {"uid1", ZeroUID} : Unstake(u, c)
    \/ \E u \in AdminCallers, st \in deployed \cup {ZeroAddress} : MigrateYieldStrategy(u, st)
    \/ \E u \in {"user1", "owner"} : HarvestYield(u)
    \/ \E u \in AdminCallers, token \in {Usdc, RandomToken, FakeUsdc},
          to \in deployed \cup {"owner"} : RescueTokens(u, token, to)
    \/ MintRandom("user1", Ledger)
    \/ TransferRandom("owner", Ledger, RANDOM_TOKEN_AMOUNT)
    \/ \E to \in {Ledger, yieldStrategy} : Donate(to)
    \/ Tick
    \/ \E u \in AdminCallers, st \in deployed, token \in {Usdc, RandomToken, FakeUsdc},
          to \in {"owner", ZeroAddress} : StrategyRescueTokens(u, st, token, to)
    \/ \E u \in AdminCallers, st \in deployed : StrategyTransferOwnership(u, st, "newOwner")
    \/ \E u \in AdminCallers, st \in deployed : StrategyAcceptOwnership(u, st)
    \/ \E u \in AdminCallers, st \in deployed : StrategyRenounceOwnership(u, st)

SpecRescue == InitRescue /\ [][NextRescue]_vars

\* The depositors' transactions on the ledger and on the token: user1 changes
\* the ledger's allowance, both depositors pass tokens on, and newly minted
\* tokens reach user2 or the ledger.  The ledger's administration stays as
\* deployed.
InitToken ==
    /\ InitWorld(OneStaker, 0, 0)
    /\ deployed = {"strategy"}

NextToken ==
    \/ \E u \in Users, c \in AnyUID : Stake(u, c)
    \/ \E u \in Users, c \in AnyUID : Unstake(u, c)
    \/ \E value \in ApprovedValues : Approve("user1", value)
    \/ \E u \in Users : \E to \in (Users \ {u}) \cup {yieldStrategy} :
          Transfer(u, to, STAKE_AMOUNT)
    \/ \E to \in {"user2", Ledger} : Mint("user1", to)
    \/ Tick

SpecToken == InitToken /\ [][NextToken]_vars

\* No ledger exists until a deployment has succeeded.
Undeployed == last.op = "none" \/ (last.op = "constructor" /\ last.err # "")

\* A deployment of the ledger; the token handed to it is recorded with the
\* treasury.
Construct(u, token, st, tr) ==
    /\ Undeployed
    /\ Commit(constructor(Cur, u, token, st, tr), Call("constructor", u, st, <<token, tr>>))

Deployed(A) == ~Undeployed /\ A

\* Deployment attempts, then the transactions of the deployed ledger.
NextDeploy ==
    \/ \E token \in {Usdc, ZeroAddress}, st \in deployed \cup {ZeroAddress},
          tr \in Treasuries \cup {ZeroAddress} : Construct("owner", token, st, tr)
    \/ Deployed(Next)

SpecDeploy == InitUndeployed /\ [][NextDeploy]_vars

\* The owner may also name the ledger itself as the treasury: setTreasury
\* rejects the zero address only.
NextSelfTreasury ==
    \/ \E u \in Users, c \in {"uid1", ZeroUID} : Stake(u, c)
    \/ \E u \in Users, c \in {"uid1", ZeroUID} : Unstake(u, c)
    \/ \E u \in AdminCallers, st \in deployed \cup {ZeroAddress} : MigrateYieldStrategy(u, st)
    \/ \E u \in {"user1", "owner"} : HarvestYield(u)
    \/ \E u \in AdminCallers, t \in Treasuries \cup {Ledger, ZeroAddress} : SetTreasury(u, t)
    \/ \E u \in AdminCallers, token \in {Usdc, RandomToken} : RescueTokens(u, token, "owner")
    \/ \E u \in AdminCallers : TransferOwnership(u, "newOwner")
    \/ \E u \in AdminCallers : AcceptOwnership(u)
    \/ \E u \in AdminCallers : RenounceOwnership(u)
    \/ \E to \in {Ledger, yieldStrategy} : Donate(to)
    \/ Tick

\* Beside the first backend a yield-bearing one and the backend that passes
\* its deposits on to a third party are deployed.
InitSelfTreasury ==
    /\ InitWorld(OneStaker, 1, 0)
    /\ deployed = {"strategy"} \cup YieldStrategies \cup MaliciousStrategies

SpecSelfTreasury == InitSelfTreasury /\ [][NextSelfTreasury]_vars

\* ------------------------------------------------------------------------
\* Helpers of the properties
\* ------------------------------------------------------------------------
\* The last step was the transaction op(arg) sent by sender.
Called(op, sender, arg) == last.op = op /\ last.sender = sender /\ last.arg = arg

Succeeded(op) == last.op = op /\ last.err = ""

\* The events of a transaction's log that the ledger itself emitted, in order.
LedgerEvents(log) == SelectSeq(log, LAMBDA e : e[1] \notin Strategies)

\* ------------------------------------------------------------------------
\* Properties
\* ------------------------------------------------------------------------

\* C1: in every reachable state of a ledger that runs on NullYieldStrategy
\* backends, totalPrincipal equals the sum of totalStaked over all claims and
\* equals principal() of the active backend.
C1_CoreAccounting ==
    /\ totalPrincipal = SumOver(totalStaked, AnyUID)
    /\ totalPrincipal = strategy_principal(Cur, yieldStrategy)

\* Stakes are outstanding on a migrated backend after an unstake.
C1_Witness ==
    /\ Succeeded("unstake")
    /\ yieldStrategy = "newStrategy"
    /\ totalPrincipal = 2 * STAKE_AMOUNT

\* The depositor u can unstake claim c in world s and is paid STAKE_AMOUNT.
CanRecover(s, u, c) ==
    LET r == unstake(s, u, c) IN
    r.err = "" /\ r.s.bal[u] = s.bal[u] + STAKE_AMOUNT

\* C2: the owner cannot access user principal: whatever the owner does, every
\* depositor with an active record can unstake and is paid STAKE_AMOUNT, and
\* the tokens backing totalPrincipal are still held by the ledger and its
\* active backend.
C2_OwnerCannotAccessPrincipal ==
    /\ \A c \in UIDs, u \in Users : stakes[c][u].amount # 0 => CanRecover(Cur, u, c)
    /\ bal[Ledger] + bal[yieldStrategy] >= totalPrincipal

\* C3: the record of a (claim, depositor) pair changes only from NoStake to
\* Staked by a successful stake of that depositor on that claim, and from
\* Staked to NoStake by a successful unstake of that depositor on that claim;
\* stake from Staked and unstake from NoStake fail.
C3_Step ==
    /\ stakes' # stakes =>
          \A c \in AnyUID, u \in Callers :
              stakes'[c][u] # stakes[c][u] =>
                  \/ /\ stakes[c][u] = NoStake
                     /\ stakes'[c][u].amount = STAKE_AMOUNT
                     /\ last' = [op |-> "stake", sender |-> u, arg |-> c, arg2 |-> "",
                                 err |-> ""]
                  \/ /\ stakes[c][u].amount = STAKE_AMOUNT
                     /\ stakes'[c][u] = NoStake
                     /\ last' = [op |-> "unstake", sender |-> u, arg |-> c, arg2 |-> "",
                                 err |-> ""]
    /\ (last'.op = "stake" /\ stakes[last'.arg][last'.sender] # NoStake) =>
           last'.err # ""
    /\ (last'.op = "unstake" /\ stakes[last'.arg][last'.sender] = NoStake) =>
           last'.err # ""

C3_PairStateMachine == [][C3_Step]_vars

\* A depositor has left a claim that another depositor still stakes on, under
\* a new owner and a migrated backend.
C3_Witness ==
    /\ Succeeded("unstake")
    /\ \E c \in UIDs : stakes[c]["user1"] = NoStake /\ stakes[c]["user2"] # NoStake
    /\ owner = "newOwner"
    /\ yieldStrategy = "newStrategy"

\* C4: a successful unstake pays the caller exactly STAKE_AMOUNT and takes
\* exactly STAKE_AMOUNT off the principal of the active backend; a stake
\* followed by an unstake of the same depositor on the same claim restores
\* the depositor's balance, the claim's totals, totalPrincipal and the
\* backend's principal.
C4_UnstakeStep ==
    (Succeeded("unstake")') =>
        /\ bal'[last'.sender] = bal[last'.sender] + STAKE_AMOUNT
        /\ strategy_principal(Cur', yieldStrategy')
               = strategy_principal(Cur, yieldStrategy) - STAKE_AMOUNT

C4_RoundTrip ==
    \A u \in Users, c \in UIDs :
        LET r1 == stake(Cur, u, c, now) IN
        r1.err = "" =>
            LET r2 == unstake(r1.s, u, c) IN
            /\ r2.err = ""
            /\ r2.s.bal[u] = bal[u]
            /\ r2.s.stakes[c][u] = stakes[c][u]
            /\ r2.s.totalStaked[c] = totalStaked[c]
            /\ r2.s.stakerCount[c] = stakerCount[c]
            /\ r2.s.totalPrincipal = totalPrincipal
            /\ strategy_principal(r2.s, r2.s.yieldStrategy)
                   = strategy_principal(Cur, yieldStrategy)

C4_ExactRefund == [][C4_UnstakeStep]_vars /\ []C4_RoundTrip

\* An unstake has succeeded while other stakes remain.
C4_Witness == Succeeded("unstake") /\ totalPrincipal > 0

\* C5: after a successful migration between NullYieldStrategy backends every
\* depositor whose record existed before the migration can unstake, with no
\* action of the depositor in between, and is paid exactly STAKE_AMOUNT.
C5_MigrateStep ==
    (Succeeded("migrateYieldStrategy")') =>
        \A c \in UIDs, u \in Users :
            stakes[c][u].amount # 0 => CanRecover(Cur', u, c)

C5_MigrationPreservesRecoverability == [][C5_MigrateStep]_vars

\* The ledger has migrated back to its first backend with stakes outstanding.
C5_Witness ==
    /\ Succeeded("migrateYieldStrategy")
    /\ last.arg = "strategy"
    /\ principal["strategy"] = 3 * STAKE_AMOUNT
    /\ now = MaxTime

\* C6: when withdrawAll() of the old backend returns totalPrincipal + Y with
\* Y > 0, a successful migration raises the treasury's balance by exactly Y
\* and leaves the new backend with a principal of exactly totalPrincipal.
C6_MigrateStep ==
    LET withdrawn == strategy_withdrawAll(Cur, yieldStrategy, Ledger).ret IN
    ((Succeeded("migrateYieldStrategy")') /\ withdrawn > totalPrincipal) =>
        /\ bal'[treasury] = bal[treasury] + (withdrawn - totalPrincipal)
        /\ strategy_principal(Cur', yieldStrategy') = totalPrincipal'
        /\ totalPrincipal' = totalPrincipal

C7_Step ==
    (last'.op = "stake" /\ last'.arg = ZeroUID) =>
        /\ last'.err = "InvalidAttestationUID"
        /\ UNCHANGED worldVars
        /\ events' = <<>>

C7_ZeroUidRejected == [][C7_Step]_vars

\* The zero identifier has been rejected while stakes are outstanding.
C7_Witness ==
    /\ last.op = "stake" /\ last.arg = ZeroUID /\ last.err = "InvalidAttestationUID"
    /\ totalPrincipal > 0

\* C8: a stake by a depositor whose stake on the claim is still active fails
\* with AlreadyStaked and leaves the whole state, the record's timestamp
\* included, as it was.
C8_Step ==
    (last'.op = "stake" /\ stakes[last'.arg][last'.sender].amount # 0) =>
        /\ last'.err = "AlreadyStaked"
        /\ UNCHANGED worldVars
        /\ events' = <<>>

C8_SecondStakeFails == [][C8_Step]_vars

\* A second stake was rejected in a later block than the first, by a
\* depositor who could have paid for it.
C8_Witness ==
    /\ last.op = "stake" /\ last.err = "AlreadyStaked"
    /\ stakes[last.arg][last.sender].timestamp < now
    /\ bal[last.sender] >= STAKE_AMOUNT

\* C9: unstake by a caller without an active record on the claim fails with
\* NoStakeFound and changes nothing; stake, unstake, unstake fails on the
\* second unstake.
C9_Step ==
    (last'.op = "unstake" /\ stakes[last'.arg][last'.sender].amount = 0) =>
        /\ last'.err = "NoStakeFound"
        /\ UNCHANGED worldVars
        /\ events' = <<>>

C9_StakeUnstakeUnstake ==
    \A u \in Users, c \in UIDs :
        LET r1 == stake(Cur, u, c, now) IN
        r1.err = "" =>
            LET r2 == unstake(r1.s, u, c) IN
            r2.err = "" /\ unstake(r2.s, u, c).err = "NoStakeFound"

C9_UnstakeWithoutStakeFails == [][C9_Step]_vars /\ []C9_StakeUnstakeUnstake

\* An unstake was rejected for a depositor who holds no record, while
\* another stake is outstanding on the claim.
C9_Witness ==
    /\ last.op = "unstake" /\ last.err = "NoStakeFound"
    /\ last.arg \in UIDs
    /\ bal[last.sender] = TwoStakers[last.sender]
    /\ totalStaked[last.arg] > 0

\* C10: a successful stake takes exactly STAKE_AMOUNT from the depositor,
\* adds exactly STAKE_AMOUNT to the principal of the active backend, creates
\* the record (STAKE_AMOUNT, current block time) and increments
\* totalStaked[claim] by STAKE_AMOUNT, stakerCount[claim] by 1 and
\* totalPrincipal by STAKE_AMOUNT.
C10_Step ==
    (Succeeded("stake")') =>
        LET u == last'.sender
            c == last'.arg
        IN /\ bal'[u] = bal[u] - STAKE_AMOUNT
           /\ yieldStrategy' = yieldStrategy
           /\ strategy_principal(Cur', yieldStrategy)
                  = strategy_principal(Cur, yieldStrategy) + STAKE_AMOUNT
           /\ stakes[c][u] = NoStake
           /\ stakes'[c][u] = [amount |-> STAKE_AMOUNT, timestamp |-> now]
           /\ totalStaked'[c] = totalStaked[c] + STAKE_AMOUNT
           /\ stakerCount'[c] = stakerCount[c] + 1
           /\ totalPrincipal' = totalPrincipal + STAKE_AMOUNT

C10_StakeEffects == [][C10_Step]_vars

\* A second depositor has staked on a claim in a later block.
C10_Witness ==
    /\ Succeeded("stake")
    /\ stakerCount[last.arg] = 2
    /\ stakes[last.arg][last.sender].timestamp = MaxTime

ActiveStakers(c) == {u \in Callers : stakes[c][u].amount # 0}

StakedAmounts(c) == [u \in Callers |-> stakes[c][u].amount]

\* C11: in every reachable state and for every claim, stakerCount is the
\* number of depositors holding an active record on the claim, and totalStaked
\* is the sum of those records' amounts, which is STAKE_AMOUNT times the count.
C11_PerClaimAccounting ==
    \A c \in AnyUID :
        /\ stakerCount[c] = Cardinality(ActiveStakers(c))
        /\ totalStaked[c] = SumOver(StakedAmounts(c), Callers)
        /\ totalStaked[c] = STAKE_AMOUNT * stakerCount[c]

\* An unstake has left one depositor on a claim that had two, while the
\* other claim has one depositor.
C11_Witness ==
    /\ Succeeded("unstake")
    /\ stakerCount[last.arg] = 1
    /\ stakes[last.arg][last.sender].amount = 0
    /\ \E d \in UIDs \ {last.arg} : stakerCount[d] = 1

\* C12: in every reachable state every stake record's amount is either 0 or
\* exactly STAKE_AMOUNT.
C12_FixedDenomination ==
    \A c \in AnyUID, u \in Callers : stakes[c][u].amount \in {0, STAKE_AMOUNT}

\* Two depositors hold a record on the same claim while a third record has
\* been cleared by an unstake.
C12_Witness ==
    /\ Succeeded("unstake")
    /\ stakes[last.arg][last.sender].amount = 0
    /\ \E c \in UIDs : \A u \in Users : stakes[c][u].amount = STAKE_AMOUNT

\* C13: a successful migrateYieldStrategy leaves every stake record (amount
\* and timestamp), every totalStaked and stakerCount, totalPrincipal and the
\* treasury address unchanged; only the active-backend reference and the
\* custody of the tokens (the two backends' holdings and tracked principal,
\* the ledger's allowance) change.
C13_Step ==
    (Succeeded("migrateYieldStrategy")') =>
        /\ UNCHANGED <<stakes, totalStaked, stakerCount, totalPrincipal, treasury>>
        /\ UNCHANGED <<owner, pendingOwner, randomBal>>
        /\ yieldStrategy' = last'.arg
        /\ \A a \in Addresses \ {yieldStrategy, yieldStrategy'} : bal'[a] = bal[a]
        /\ \A st \in Strategies \ {yieldStrategy, yieldStrategy'} :
              principal'[st] = principal[st]

C13_MigrationFrame == [][C13_Step]_vars

\* A migration has run with three records outstanding on two claims, stamped
\* in different blocks, after the treasury was replaced.
C13_Witness ==
    /\ Succeeded("migrateYieldStrategy")
    /\ yieldStrategy = "newStrategy"
    /\ totalPrincipal = 3 * STAKE_AMOUNT
    /\ treasury = "newTreasury"
    /\ \E c \in UIDs, u \in Users : stakes[c][u].timestamp = 1
    /\ \E c \in UIDs, u \in Users : stakes[c][u].timestamp = MaxTime

\* C14: migrateYieldStrategy called by the owner with the zero address fails
\* with InvalidAddress; with a backend whose vault() is not the ledger or
\* whose usdc() is not the ledger's token it fails with StrategyMismatch; in
\* each case the active backend, the old backend's principal and all balances
\* are unchanged.
C14_Step ==
    LET st == last'.arg IN
    (last'.op = "migrateYieldStrategy" /\ last'.sender = owner) =>
        /\ st = ZeroAddress =>
              last'.err = "InvalidAddress" /\ UNCHANGED worldVars /\ events' = <<>>
        /\ (st \in Strategies /\ (vault(st) # Ledger \/ usdc(st) # Usdc)) =>
              last'.err = "StrategyMismatch" /\ UNCHANGED worldVars /\ events' = <<>>

C14_MisconfiguredBackendRejected == [][C14_Step]_vars

\* The owner's migration to a backend bound to another vault was rejected
\* while stakes were outstanding on a backend the ledger had migrated to.
C14_Witness ==
    /\ Called("migrateYieldStrategy", owner, "badVaultStrategy")
    /\ last.err = "StrategyMismatch"
    /\ yieldStrategy = "newStrategy"
    /\ principal["newStrategy"] = 2 * STAKE_AMOUNT

\* C15: a successful migration from one NullYieldStrategy to a second one
\* with stakes outstanding leaves totalValue() unchanged and equal to
\* totalPrincipal before and after, sends nothing to the treasury, leaves the
\* old backend with a principal of zero and the new backend with a principal
\* of totalPrincipal.
C15_Step ==
    LET old == yieldStrategy
        new == last'.arg
    IN ((Succeeded("migrateYieldStrategy")') /\ totalPrincipal > 0
          /\ old \in NullStrategies /\ new \in NullStrategies /\ new # old) =>
        /\ totalValue(Cur) = totalPrincipal
        /\ totalValue(Cur') = totalPrincipal'
        /\ totalValue(Cur') = totalValue(Cur)
        /\ bal'[treasury] = bal[treasury]
        /\ \A i \in 1..Len(events') : events'[i][1] # "YieldHarvested"
        /\ strategy_principal(Cur', old) = 0
        /\ strategy_principal(Cur', new) = totalPrincipal'

C15_NullMigrationIsNeutral == [][C15_Step]_vars

\* Two stakes have moved from the first backend to the second.
C15_Witness ==
    /\ Called("migrateYieldStrategy", "owner", "newStrategy")
    /\ last.err = ""
    /\ totalPrincipal = 2 * STAKE_AMOUNT
    /\ principal["strategy"] = 0
    /\ bal["strategy"] = 0
    /\ bal["newStrategy"] = 2 * STAKE_AMOUNT

\* C16: in every reachable state, migrateYieldStrategy, setTreasury,
\* rescueTokens and transferOwnership called by anyone other than the current
\* owner fail and change nothing; harvestYield succeeds whoever calls it.
C16_Step ==
    /\ (/\ last'.op \in {"migrateYieldStrategy", "setTreasury", "rescueTokens",
                          "transferOwnership"}
        /\ last'.sender # owner) =>
           /\ last'.err = "OwnableUnauthorizedAccount"
           /\ UNCHANGED worldVars
           /\ events' = <<>>
    /\ last'.op = "harvestYield" => last'.err = ""

C16_AdminGating == [][C16_Step]_vars

\* The former owner, after the handover was accepted, tried to replace the
\* treasury and was rejected.
C16_Witness ==
    /\ Called("setTreasury", "owner", "newTreasury")
    /\ owner = "newOwner"
    /\ last.err = "OwnableUnauthorizedAccount"
    /\ treasury = "treasury"

\* C17: a successful transferOwnership(n) leaves the owner unchanged and makes
\* n the pending nominee; acceptOwnership by any address other than the
\* pending nominee fails and changes nothing; the owner changes only in a
\* successful acceptOwnership step of the pending nominee, who becomes the
\* owner.
C17_Step ==
    /\ (Succeeded("transferOwnership")') =>
           owner' = owner /\ pendingOwner' = last'.arg
    /\ (last'.op = "acceptOwnership" /\ last'.sender # pendingOwner) =>
           last'.err = "OwnableUnauthorizedAccount" /\ UNCHANGED worldVars
    /\ owner' # owner =>
           /\ Succeeded("acceptOwnership")'
           /\ last'.sender = pendingOwner
           /\ owner' = pendingOwner

C17_TwoStepOwnership == [][C17_Step]_vars

\* C18: setTreasury called by the owner with the zero address fails with
\* InvalidAddress and leaves the treasury unchanged; with a non-zero address
\* it succeeds, sets the treasury to that address and changes nothing else;
\* the treasury is the zero address in no reachable state.
C18_Step ==
    (last'.op = "setTreasury" /\ last'.sender = owner) =>
        IF last'.arg = ZeroAddress
        THEN /\ last'.err = "InvalidAddress"
             /\ UNCHANGED worldVars
             /\ events' = <<>>
        ELSE /\ last'.err = ""
             /\ treasury' = last'.arg
             /\ UNCHANGED <<bal, allowance, randomBal, stakes, totalStaked, stakerCount,
                            totalPrincipal, yieldStrategy, owner, pendingOwner, principal>>
             /\ events' = <<<<"TreasuryUpdated", treasury, last'.arg>>>>

C18_TreasuryNeverZero == [][C18_Step]_vars /\ [](treasury # ZeroAddress)

\* The new owner's setTreasury(0) was rejected after the treasury had been
\* replaced.
C18_Witness ==
    /\ Called("setTreasury", "newOwner", ZeroAddress)
    /\ owner = "newOwner"
    /\ last.err = "InvalidAddress"
    /\ treasury = "newTreasury"

\* C19 as stated: deposit, withdraw, withdrawAll and harvestYield of a backend
\* all fail when the caller is not the backend's bound vault.
C19_Step_AllFour ==
    (/\ last'.op \in {"strategy.deposit", "strategy.withdraw", "strategy.withdrawAll",
                      "strategy.harvestYield"}
     /\ last'.sender # vault(last'.arg)) =>
        last'.err # ""

C19_EveryBackendCallNeedsVault == [][C19_Step_AllFour]_vars

\* C19, amended: deposit, withdraw and withdrawAll of a NullYieldStrategy fail
\* with OnlyVault and change nothing when the caller is not the backend's
\* bound vault; harvestYield checks no caller, succeeds for anyone and changes
\* nothing.
C19_Step ==
    /\ (/\ last'.op \in {"strategy.deposit", "strategy.withdraw", "strategy.withdrawAll"}
        /\ last'.sender # vault(last'.arg)) =>
           /\ last'.err = "OnlyVault"
           /\ UNCHANGED worldVars
           /\ events' = <<>>
    /\ last'.op = "strategy.harvestYield" =>
           /\ last'.err = ""
           /\ UNCHANGED worldVars
           /\ events' = <<>>

C19_OnlyVaultMovesFunds == [][C19_Step]_vars

\* An account that is not the vault tried to empty the active backend while
\* it held a stake.
C19_Witness ==
    /\ Called("strategy.withdrawAll", "user1", yieldStrategy)
    /\ last.err = "OnlyVault"
    /\ principal[yieldStrategy] = STAKE_AMOUNT
    /\ bal[yieldStrategy] = STAKE_AMOUNT

\* C20: a successful deposit(amount) raises the backend's principal by
\* exactly amount, taking the tokens from the caller; withdraw(amount) called
\* by the vault with amount <= principal succeeds, lowers the principal by
\* exactly amount and pays amount to the caller; with amount > principal it
\* fails with InsufficientBalance and changes nothing.
C20_Step ==
    LET st == last'.arg
        u == last'.sender
    IN \A amount \in BackendAmounts :
         /\ ((Succeeded("strategy.deposit")') /\ last'.arg2 = ToString(amount)) =>
                /\ principal'[st] = principal[st] + amount
                /\ bal'[st] = bal[st] + amount
                /\ bal'[u] = bal[u] - amount
         /\ (/\ last'.op = "strategy.withdraw"
             /\ last'.arg2 = ToString(amount)
             /\ u = vault(st)) =>
                IF amount <= principal[st]
                THEN /\ last'.err = ""
                     /\ principal'[st] = principal[st] - amount
                     /\ bal'[u] = bal[u] + amount
                     /\ bal'[st] = bal[st] - amount
                ELSE /\ last'.err = "InsufficientBalance"
                     /\ UNCHANGED worldVars
                     /\ events' = <<>>

C20_ExactPrincipalMoves == [][C20_Step]_vars

\* The vault of a backend asked for more than the principal it had deposited
\* there.
C20_Witness ==
    /\ Called("strategy.withdraw", DeadVault, "badVaultStrategy")
    /\ last.arg2 = ToString(2 * DonationUnit)
    /\ last.err = "InsufficientBalance"
    /\ principal["badVaultStrategy"] = DonationUnit
    /\ bal["badVaultStrategy"] = DonationUnit

\* C21: a successful withdrawAll() of a NullYieldStrategy, as the ledger calls
\* it when it migrates away from the backend, returns the backend's entire
\* token balance (tracked principal plus surplus) to the caller and zeroes
\* the principal, so that the backend holds no tokens afterwards.
C21_Step ==
    LET old == yieldStrategy
        r == null_withdrawAll(Cur, old, Ledger)
    IN ((Succeeded("migrateYieldStrategy")') /\ old \in NullStrategies
          /\ last'.arg # old) =>
        /\ r.err = ""
        /\ r.ret = bal[old]
        /\ principal'[old] = 0
        /\ bal'[old] = 0

C21_WithdrawAllEmptiesBackend == [][C21_Step]_vars

\* C22: in every reachable state every NullYieldStrategy reports
\* pendingYield() = 0 and totalValue() = principal(), and its
\* harvestYield(recipient) returns 0 and changes nothing; every harvestYield
\* of the ledger while a NullYieldStrategy is active succeeds, leaves the
\* treasury's balance and everything else unchanged and emits nothing.
C22_NullViews ==
    \A st \in deployed \cap NullStrategies :
        /\ null_pendingYield(Cur, st) = 0
        /\ null_totalValue(Cur, st) = null_principal(Cur, st)
        /\ \A u \in {Ledger, "user1"} :
              LET r == null_harvestYield(Cur, st, u, treasury) IN
              r.err = "" /\ r.ret = 0 /\ r.s = Cur

C22_Step ==
    (last'.op = "harvestYield" /\ yieldStrategy \in NullStrategies) =>
        /\ last'.err = ""
        /\ bal'[treasury] = bal[treasury]
        /\ UNCHANGED worldVars
        /\ events' = <<>>

C22_NullNeverYields == [][C22_Step]_vars /\ []C22_NullViews

\* The ledger's harvestYield has run while the active NullYieldStrategy held
\* a stake and, on top of it, tokens it was sent directly.
C22_Witness ==
    /\ Succeeded("harvestYield")
    /\ yieldStrategy \in NullStrategies
    /\ principal[yieldStrategy] = STAKE_AMOUNT
    /\ bal[yieldStrategy] = STAKE_AMOUNT + DonationUnit
    /\ bal[treasury] = 0

\* C23: every harvestYield of the ledger, whoever calls it, leaves
\* totalPrincipal, every stake record, the per-claim aggregates, the active
\* backend and its principal() unchanged and takes nothing from any
\* depositor; when the backend harvests zero the call succeeds and emits no
\* YieldHarvested event.
C23_Step ==
    LET h == strategy_harvestYield(Cur, yieldStrategy, Ledger, treasury) IN
    last'.op = "harvestYield" =>
        /\ UNCHANGED <<stakes, totalStaked, stakerCount, totalPrincipal, yieldStrategy>>
        /\ strategy_principal(Cur', yieldStrategy) = strategy_principal(Cur, yieldStrategy)
        /\ \A u \in Users : bal'[u] = bal[u]
        /\ (h.err = "" /\ h.ret = 0) =>
               /\ last'.err = ""
               /\ UNCHANGED worldVars
               /\ events' = <<>>

C23_HarvestNeverMovesPrincipal == [][C23_Step]_vars

\* With a stake outstanding on a yield-bearing backend, a harvest that found
\* nothing has followed one that moved yield to the treasury.
C23_Witness ==
    /\ Succeeded("harvestYield")
    /\ events = <<>>
    /\ yieldStrategy \in YieldStrategies
    /\ totalPrincipal = STAKE_AMOUNT
    /\ principal[yieldStrategy] = STAKE_AMOUNT
    /\ bal[treasury] = DonationUnit

\* C24: a successful rescueTokens of the ledger's own staking token moves out
\* of the ledger at most what the ledger and the active backend hold above
\* totalPrincipal, so that afterwards the tokens held by the ledger and the
\* backend still cover totalPrincipal if they did before; for any other token it sweeps the
\* ledger's whole balance of that token to the recipient and moves no staking
\* token.
C24_Step ==
    LET to == last'.arg2
        moved == bal[Ledger] - bal'[Ledger]
        spare == bal[Ledger] + bal[yieldStrategy] - totalPrincipal
    IN (Succeeded("rescueTokens")') =>
        IF last'.arg = Usdc
        THEN /\ moved <= (IF spare > 0 THEN spare ELSE 0)
             /\ bal'[to] = bal[to] + moved
             /\ spare >= 0 => bal'[Ledger] + bal'[yieldStrategy] >= totalPrincipal'
             /\ UNCHANGED <<randomBal, principal, totalPrincipal>>
        ELSE /\ randomBal'[to] = randomBal[to] + randomBal[Ledger]
             /\ randomBal'[Ledger] = 0
             /\ UNCHANGED <<bal, principal, totalPrincipal>>

C24_RescueSparesPrincipal == [][C24_Step]_vars

\* The worlds in which a callee of the ledger runs, for every entry point
\* that can be started in the current state.
Worlds(calls) == {calls[i].w : i \in 1..Len(calls)}

GuardedInFlight ==
    UNION ({Worlds(stake_calls(Cur, p[1], p[2], now)) :
               p \in {q \in Users \X UIDs : stakes[q[2]][q[1]].amount = 0}}
           \cup {Worlds(unstake_calls(Cur, p[1], p[2])) :
                     p \in {q \in Users \X UIDs : stakes[q[2]][q[1]].amount # 0}}
           \cup {Worlds(migrate_calls(Cur, owner, st)) :
                     st \in {x \in deployed : vault(x) = Ledger /\ usdc(x) = Usdc}}
           \cup {Worlds(harvest_calls(Cur, u)) : u \in Users})

UnguardedInFlight ==
    UNION ({Worlds(rescue_calls(Cur, owner, token, to)) :
               token \in {Usdc, RandomToken, FakeUsdc}, to \in {"owner"}}
           \cup {Worlds(setTreasury_calls(Cur, owner, tr)) : tr \in Treasuries})

\* Every call a contract entered by the ledger can make back into it.
GuardedNested(w) ==
    {stake(w, u, c, now) : u \in Users, c \in UIDs}
    \cup {unstake(w, u, c) : u \in Users, c \in UIDs}
    \cup {migrateYieldStrategy(w, u, st) : u \in Admins, st \in deployed}
    \cup {harvestYield(w, u) : u \in Callers}

UnguardedNested(w) ==
    {setTreasury(w, u, tr) : u \in Admins, tr \in Treasuries}
    \cup {rescueTokens(w, u, token, "owner") :
              u \in Admins, token \in {Usdc, RandomToken, FakeUsdc}}

\* C25: in every reachable state, for every entry point (stake, unstake,
\* migrateYieldStrategy, harvestYield, setTreasury, rescueTokens) that can be
\* started and every external call it makes, a nested call into any of these
\* entry points fails and leaves the world as the callee found it.
C25_ReentrancyExclusion ==
    \A w \in GuardedInFlight \cup UnguardedInFlight :
        \A r \in GuardedNested(w) \cup UnguardedNested(w) :
            r.err # "" /\ r.s = w

\* C26: a stake, unstake or migrateYieldStrategy that fails, at whichever of
\* its steps, leaves the ledger's state, every backend's principal and every
\* token balance and allowance exactly as before the call and emits nothing;
\* and whenever a stake record is written the depositor has paid
\* STAKE_AMOUNT and, on a NullYieldStrategy, the backend's principal and
\* balance have grown by STAKE_AMOUNT.
C26_Step ==
    /\ (last'.op \in {"stake", "unstake", "migrateYieldStrategy"} /\ last'.err # "") =>
           /\ UNCHANGED worldVars
           /\ events' = <<>>
    /\ \A c \in AnyUID, u \in Callers :
           (stakes'[c][u].amount # 0 /\ stakes[c][u].amount = 0) =>
               /\ last'.op = "stake" /\ last'.sender = u /\ last'.arg = c
               /\ bal'[u] = bal[u] - STAKE_AMOUNT
               /\ yieldStrategy \in NullStrategies =>
                      /\ principal'[yieldStrategy] = principal[yieldStrategy] + STAKE_AMOUNT
                      /\ bal'[yieldStrategy] = bal[yieldStrategy] + STAKE_AMOUNT

C26_AtomicFailure == [][C26_Step]_vars

\* An unstake failed in the backend's withdraw, after the ledger had cleared
\* the record: the record and the counters are as before the call.
C26_Witness ==
    /\ last.op = "unstake"
    /\ last.err = "no funds lol"
    /\ stakes[last.arg][last.sender].amount = STAKE_AMOUNT
    /\ stakerCount[last.arg] = 1
    /\ totalPrincipal = STAKE_AMOUNT

\* What an indexer keeps of the ledger, and how it updates it from one event.
Books(s) == [stakes |-> s.stakes, totalStaked |-> s.totalStaked,
             stakerCount |-> s.stakerCount, totalPrincipal |-> s.totalPrincipal]

ApplyEvent(b, ev) ==
    IF ev[1] = "Staked"
    THEN [b EXCEPT !.stakes[ev[2]][ev[3]] = [amount |-> ev[4], timestamp |-> ev[5]],
                   !.totalStaked[ev[2]] = @ + ev[4],
                   !.stakerCount[ev[2]] = @ + 1,
                   !.totalPrincipal = @ + ev[4]]
    ELSE IF ev[1] = "Unstaked"
    THEN [b EXCEPT !.stakes[ev[2]][ev[3]] = NoStake,
                   !.totalStaked[ev[2]] = @ - ev[4],
                   !.stakerCount[ev[2]] = @ - 1,
                   !.totalPrincipal = @ - ev[4]]
    ELSE b

RECURSIVE Replay(_, _)
Replay(b, evs) ==
    IF evs = <<>> THEN b ELSE Replay(ApplyEvent(b, Head(evs)), Tail(evs))

\* C27: the ledger emits in every successful stake exactly the one event
\* Staked(claim, depositor, STAKE_AMOUNT, timestamp), every successful unstake
\* exactly the one event Unstaked(claim, depositor, amount), a failed call
\* emits nothing, and applying the events of each transaction, in order, to
\* the books as they were before it yields the ledger's stake records,
\* totalStaked, stakerCount and totalPrincipal after it; the books start
\* empty, so the replay of the whole log is the ledger's current state.
C27_Step ==
    /\ (Succeeded("stake")') =>
           LedgerEvents(events') =
               <<<<"Staked", last'.arg, last'.sender, STAKE_AMOUNT, now>>>>
    /\ (Succeeded("unstake")') =>
           LedgerEvents(events') =
               <<<<"Unstaked", last'.arg, last'.sender,
                   stakes[last'.arg][last'.sender].amount>>>>
    /\ last'.err # "" => events' = <<>>
    /\ IF events' = <<>>
       THEN UNCHANGED <<stakes, totalStaked, stakerCount, totalPrincipal>>
       ELSE Replay(Books(Cur), events') = Books(Cur')

C27_EventsReconstructLedger ==
    /\ Books(Cur) = [stakes |-> [c \in AnyUID |-> [u \in Callers |-> NoStake]],
                     totalStaked |-> [c \in AnyUID |-> 0],
                     stakerCount |-> [c \in AnyUID |-> 0],
                     totalPrincipal |-> 0]
    /\ [][C27_Step]_vars

\* An unstake in a later block has emitted its event, after the backend's
\* Withdrawn, and left the other depositor on the claim.
C27_Witness ==
    /\ Succeeded("unstake")
    /\ events = <<<<yieldStrategy, <<"Withdrawn", STAKE_AMOUNT>>>>,
                  <<"Unstaked", last.arg, last.sender, STAKE_AMOUNT>>>>
    /\ stakerCount[last.arg] = 1
    /\ totalPrincipal = 2 * STAKE_AMOUNT
    /\ now = MaxTime

\* C28: a successful unstake(X) by depositor A changes only A's record on X,
\* totalStaked[X], stakerCount[X], totalPrincipal, the active backend's
\* principal and balance and A's token balance; every other record, on X and
\* on other claims, and the aggregates of every other claim are unchanged.  A
\* successful stake(X) likewise leaves every other record and the aggregates
\* of every other claim unchanged.
C28_Step ==
    LET A == last'.sender
        X == last'.arg
    IN ((Succeeded("unstake")') \/ (Succeeded("stake")')) =>
        /\ \A c \in AnyUID, u \in Callers :
              (c # X \/ u # A) => stakes'[c][u] = stakes[c][u]
        /\ \A c \in AnyUID \ {X} :
              totalStaked'[c] = totalStaked[c] /\ stakerCount'[c] = stakerCount[c]
        /\ \A a \in Addresses \ {A, yieldStrategy} : bal'[a] = bal[a]
        /\ \A st \in Strategies \ {yieldStrategy} : principal'[st] = principal[st]
        /\ UNCHANGED <<yieldStrategy, treasury, owner, pendingOwner, randomBal>>

C28_StakeUnstakeFrame == [][C28_Step]_vars

\* A has unstaked from a claim on which B staked in the first block and still
\* holds a record, while another claim has a depositor as well.
C28_Witness ==
    /\ Succeeded("unstake")
    /\ \E B \in Users \ {last.sender} :
          stakes[last.arg][B] = [amount |-> STAKE_AMOUNT, timestamp |-> 1]
    /\ stakerCount[last.arg] = 1
    /\ totalStaked[last.arg] = STAKE_AMOUNT
    /\ \E d \in UIDs \ {last.arg} : stakerCount[d] = 1
    /\ now = MaxTime

\* C29: in every successful unstake the first external call is the backend's
\* withdraw, followed by the token transfer to the depositor, and in the
\* world each of these calls is made in, the caller's record is already
\* cleared and totalStaked, stakerCount of the claim and totalPrincipal are
\* already decremented: the callee reads the bookkeeping the unstake ends
\* with.
C29_Step ==
    LET A == last'.sender
        X == last'.arg
        amount == stakes[X][A].amount
    IN (Succeeded("unstake")') =>
      \A calls \in {unstake_calls(Cur, A, X)} :
        /\ Len(calls) = 2
        /\ calls[1].to = yieldStrategy /\ calls[1].fn = "withdraw"
        /\ calls[1].arg = amount
        /\ calls[2].to = Usdc /\ calls[2].fn = "transfer" /\ calls[2].arg = amount
        /\ \A i \in 1..Len(calls) :
              LET w == calls[i].w IN
              /\ w.entered
              /\ w.stakes[X][A] = NoStake
              /\ w.totalStaked[X] = totalStaked[X] - amount
              /\ w.stakerCount[X] = stakerCount[X] - 1
              /\ w.totalPrincipal = totalPrincipal - amount
              /\ Books(w) = Books(Cur')
        /\ calls[1].w.bal = bal
        /\ calls[2].w.bal[Ledger] = bal[Ledger] + amount

C29_UnstakeEffectsBeforeCalls == [][C29_Step]_vars

\* user2 has unstaked from a claim that user1 stays on.
C29_Witness ==
    /\ Called("unstake", "user2", "uid2")
    /\ last.err = ""
    /\ stakes["uid2"]["user1"].amount = STAKE_AMOUNT
    /\ stakerCount["uid2"] = 1
    /\ bal[Ledger] = 0

\* C30: in every successful migrateYieldStrategy the external calls are, in
\* this order, withdrawAll on the old backend, the approval for and
\* deposit(totalPrincipal) into the new backend and, when the old backend
\* returned more than totalPrincipal, the transfer of the excess to the
\* treasury; the old backend is still the active one when its withdrawAll is
\* called, and the new backend is already the active one in the world the
\* approval and the deposit are made in.
C30_Step ==
    LET old == yieldStrategy
        new == last'.arg
    IN (Succeeded("migrateYieldStrategy")') =>
      \A calls \in {migrate_calls(Cur, last'.sender, new)},
         withdrawn \in {strategy_withdrawAll(Cur, old, Ledger).ret} :
        /\ Len(calls) = (IF withdrawn > totalPrincipal THEN 4 ELSE 3)
        /\ calls[1].to = old /\ calls[1].fn = "withdrawAll"
        /\ calls[1].w.yieldStrategy = old
        /\ calls[2].to = Usdc /\ calls[2].fn = "approve"
        /\ calls[2].w.yieldStrategy = new
        /\ calls[2].w.bal[Ledger] = bal[Ledger] + withdrawn
        /\ calls[3].to = new /\ calls[3].fn = "deposit"
        /\ calls[3].arg = totalPrincipal
        /\ calls[3].w.yieldStrategy = new
        /\ calls[3].w.principal[new] = principal'[new] - totalPrincipal
        /\ Len(calls) = 4 =>
              /\ calls[4].to = Usdc /\ calls[4].fn = "transfer"
              /\ calls[4].arg = withdrawn - totalPrincipal
              /\ calls[4].w.yieldStrategy = new
              /\ calls[4].w.principal = principal'
              /\ bal'[treasury] = calls[4].w.bal[treasury] + calls[4].arg
        /\ \A i \in 1..Len(calls) : calls[i].w.entered
        /\ yieldStrategy' = new

C30_MigrationStepOrder == [][C30_Step]_vars

\* A migration away from the yield-bearing backend has made all four calls:
\* the stake sits on the new backend and the excess at the treasury.
C30_Witness ==
    /\ Succeeded("migrateYieldStrategy")
    /\ last.arg = "strategy"
    /\ principal["strategy"] = STAKE_AMOUNT
    /\ bal[treasury] = DonationUnit
    /\ \E i \in 1..Len(events) : events[i][1] = "YieldHarvested"

\* The ledger state an entry point writes.
LedgerWrites(s) ==
    [stakes |-> s.stakes, totalStaked |-> s.totalStaked, stakerCount |-> s.stakerCount,
     totalPrincipal |-> s.totalPrincipal, yieldStrategy |-> s.yieldStrategy]

\* The external calls of the transaction that has just run, when it is one
\* of the three entry points that call the token or a backend.
CallsOfLast(s, l) ==
    IF l.op = "stake" THEN stake_calls(s, l.sender, l.arg, now)
    ELSE IF l.op = "unstake" THEN unstake_calls(s, l.sender, l.arg)
    ELSE IF l.op = "migrateYieldStrategy" THEN migrate_calls(s, l.sender, l.arg)
    ELSE <<>>

\* C31: in every successful stake, unstake and migrateYieldStrategy each
\* external call is made in a world in which the stake records, totalStaked,
\* stakerCount, totalPrincipal and the active-backend reference already have
\* the values the operation ends with: all ledger writes precede the first
\* external call.
C31_Step ==
    (last'.err = "" /\ last'.op \in {"stake", "unstake", "migrateYieldStrategy"}) =>
        \A calls \in {CallsOfLast(Cur, last')} :
            \A i \in 1..Len(calls) : LedgerWrites(calls[i].w) = LedgerWrites(Cur')

C31_EffectsBeforeInteractionsEverywhere == [][C31_Step]_vars

\* C32: after every successful migrateYieldStrategy, whatever the old
\* backend's withdrawAll returned and whichever backend that passed the vault
\* and token checks is the new one, principal() of the new active backend
\* equals totalPrincipal, which the migration has not changed.
C32_Step ==
    (Succeeded("migrateYieldStrategy")') =>
        /\ yieldStrategy' = last'.arg
        /\ totalPrincipal' = totalPrincipal
        /\ strategy_principal(Cur', yieldStrategy') = totalPrincipal'

C32_MigrationDepositsOwnPrincipal == [][C32_Step]_vars

\* C33: of the ledger's events, every successful migrateYieldStrategy emits
\* exactly one
\* StrategyMigrated(old backend, new backend, totalPrincipal); it emits
\* YieldHarvested(excess, treasury), once and before StrategyMigrated, exactly
\* when the old backend's withdrawAll returned more than totalPrincipal, with
\* excess the difference; a failed migration emits nothing.
C33_Step ==
    LET old == yieldStrategy
        new == last'.arg
        withdrawn == strategy_withdrawAll(Cur, old, Ledger).ret
        migrated == <<"StrategyMigrated", old, new, totalPrincipal>>
        harvested == <<"YieldHarvested", withdrawn - totalPrincipal, treasury>>
    IN last'.op = "migrateYieldStrategy" =>
        IF last'.err = ""
        THEN LedgerEvents(events') =
                 (IF withdrawn > totalPrincipal THEN <<harvested, migrated>>
                  ELSE <<migrated>>)
        ELSE events' = <<>>

C33_MigrationEvents == [][C33_Step]_vars

\* In the last block a migration back to the first backend has reported the
\* excess it forwarded and then the migration of the outstanding stake.
C33_Witness ==
    /\ Succeeded("migrateYieldStrategy")
    /\ events = <<<<"strategy", <<"Deposited", STAKE_AMOUNT>>>>,
                  <<"YieldHarvested", DonationUnit, treasury>>,
                  <<"StrategyMigrated", "aaveStrategy", "strategy", STAKE_AMOUNT>>>>
    /\ now = MaxTime

\* What a successful migrateYieldStrategy or harvestYield started in the
\* current state sends to the treasury.
RoutedToTreasury(op) ==
    IF op = "harvestYield"
    THEN strategy_harvestYield(Cur, yieldStrategy, Ledger, treasury).ret
    ELSE strategy_withdrawAll(Cur, yieldStrategy, Ledger).ret - totalPrincipal

C34_OriginalStep ==
    (last'.err = "" /\ last'.op \in {"stake", "unstake", "migrateYieldStrategy",
                                     "harvestYield"}) =>
        bal'[Ledger] = bal[Ledger]

\* C34 as stated: every successful stake, unstake, migrateYieldStrategy and
\* harvestYield leaves the ledger's own token balance as it was.
C34_LedgerBalanceNeverMoves == [][C34_OriginalStep]_vars

C34_Step ==
    /\ ((Succeeded("stake")') \/ (Succeeded("unstake")')) => bal'[Ledger] = bal[Ledger]
    /\ ((Succeeded("migrateYieldStrategy")') \/ (Succeeded("harvestYield")')) =>
           bal'[Ledger] = bal[Ledger]
                          + (IF treasury = Ledger THEN RoutedToTreasury(last'.op) ELSE 0)
    /\ bal'[Ledger] # bal[Ledger] =>
           \/ last'.op = "transfer" /\ last'.arg = Ledger
           \/ last'.op = "rescueTokens" /\ bal'[Ledger] = 0
           \/ last'.op \in {"migrateYieldStrategy", "harvestYield"} /\ treasury = Ledger

\* The backends that keep what is deposited into them: NullYieldStrategy and
\* the yield-bearing backend; MaliciousStrategy forwards it to the attacker.
HoldsDeposits(st) == st \in NullStrategies \cup YieldStrategies

C34_PrincipalInBackend ==
    HoldsDeposits(yieldStrategy) =>
        /\ principal[yieldStrategy] = totalPrincipal
        /\ bal[yieldStrategy] >= totalPrincipal

\* C34: the ledger's token balance starts at 0; every successful stake and
\* unstake leaves it unchanged; a successful migrateYieldStrategy or
\* harvestYield leaves it unchanged unless the treasury is the ledger itself,
\* in which case it grows by the yield routed to the treasury; otherwise it
\* changes only by a direct transfer to the ledger or by rescueTokens; and
\* the active backend holds totalPrincipal whenever it is a backend that keeps
\* its deposits (a NullYieldStrategy or the yield-bearing backend), which the
\* backend that forwards its deposits to a third party is not.
C34_LedgerHoldsNoTokens ==
    /\ bal[Ledger] = 0
    /\ [][C34_Step]_vars
    /\ []C34_PrincipalInBackend

\* With the ledger named as treasury, a harvest has moved the backend's
\* surplus onto the ledger while a stake is outstanding.
C34_Witness ==
    /\ Succeeded("harvestYield")
    /\ treasury = Ledger
    /\ bal[Ledger] = DonationUnit
    /\ totalPrincipal = STAKE_AMOUNT
    /\ bal[yieldStrategy] = STAKE_AMOUNT

\* The NullYieldStrategy instances that are bound to the ledger.
BoundNullStrategies == {st \in deployed \cap NullStrategies : vault(st) = Ledger}

C35_IdleBackendsEmpty ==
    \A st \in BoundNullStrategies \ {yieldStrategy} : null_principal(Cur, st) = 0

C35_Step ==
    ((Succeeded("migrateYieldStrategy")') /\ last'.arg \in NullStrategies) =>
        /\ yieldStrategy' = last'.arg
        /\ null_principal(Cur', yieldStrategy') = totalPrincipal'
        /\ yieldStrategy # yieldStrategy' /\ yieldStrategy \in NullStrategies =>
               null_principal(Cur', yieldStrategy) = 0

\* C35: in every reachable state every NullYieldStrategy bound to the ledger
\* other than the active one has principal() = 0, and every successful
\* migration to a NullYieldStrategy, a previously used one included, leaves
\* the new backend with principal() = totalPrincipal and the replaced one
\* with principal() = 0.
C35_OnlyActiveBackendHoldsPrincipal == []C35_IdleBackendsEmpty /\ [][C35_Step]_vars

\* The ledger has migrated back to its first backend with a stake
\* outstanding: the backend used in between, which was sent tokens while it
\* was the active one, reports no principal.
C35_Witness ==
    /\ Succeeded("migrateYieldStrategy")
    /\ last.arg = "strategy"
    /\ totalPrincipal = STAKE_AMOUNT
    /\ principal["strategy"] = STAKE_AMOUNT
    /\ principal["newStrategy"] = 0
    /\ bal["newStrategy"] = DonationUnit

C36_FullyBacked ==
    \A st \in deployed \cap NullStrategies : bal[st] >= null_principal(Cur, st)

C36_Step ==
    LET st == last'.arg
        token == last'.arg2[1]
        to == last'.arg2[2]
        excess == IF bal[st] > principal[st] THEN bal[st] - principal[st] ELSE 0
    IN last'.op = "strategy.rescueTokens" =>
        IF last'.err # ""
        THEN /\ UNCHANGED worldVars
             /\ last'.sender # strategyOwner[st] \/ to = ZeroAddress
        ELSE /\ last'.sender = strategyOwner[st]
             /\ UNCHANGED <<principal, ledgerVars, allowance, strategyOwner,
                            strategyPendingOwner>>
             /\ IF token = Usdc
                THEN /\ bal'[st] = bal[st] - excess
                     /\ bal'[to] = bal[to] + excess
                     /\ \A a \in Addresses \ {st, to} : bal'[a] = bal[a]
                     /\ UNCHANGED randomBal
                ELSE IF token = RandomToken
                THEN /\ randomBal'[st] = 0
                     /\ randomBal'[to] = randomBal[to] + randomBal[st]
                     /\ UNCHANGED bal
                ELSE UNCHANGED <<bal, randomBal>>

\* C36: in every reachable state every NullYieldStrategy holds at least its
\* principal() in the staking token; rescueTokens of the backend succeeds
\* only for the backend's current owner and a recipient that is not the zero
\* address, and then moves, of the staking token, exactly what the backend
\* holds above its principal (nothing when it holds no more than its
\* principal) and, of another token, the backend's whole balance, and changes
\* no principal; a failed call changes nothing.
C36_NullAlwaysBacked == []C36_FullyBacked /\ [][C36_Step]_vars

\* The account that took over the backend's ownership has rescued the tokens
\* sent directly to the active backend, which still holds the outstanding
\* stake.
C36_Witness ==
    /\ Succeeded("strategy.rescueTokens")
    /\ last.arg = yieldStrategy
    /\ last.arg2 = <<Usdc, "owner">>
    /\ last.sender = "newOwner"
    /\ strategyOwner[yieldStrategy] = "newOwner"
    /\ bal["owner"] = DonationUnit
    /\ principal[yieldStrategy] = STAKE_AMOUNT
    /\ bal[yieldStrategy] = STAKE_AMOUNT

C37_Wired ==
    ~Undeployed =>
        /\ yieldStrategy # ZeroAddress
        /\ yieldStrategy \in deployed
        /\ vault(yieldStrategy) = Ledger
        /\ usdc(yieldStrategy) = Usdc

C37_Step ==
    last'.op = "constructor" =>
        LET token == last'.arg2[1]
            st == last'.arg
            tr == last'.arg2[2]
        IN /\ last'.err = (IF ZeroAddress \in {token, st, tr} THEN "InvalidAddress"
                           ELSE IF vault(st) # Ledger \/ usdc(st) # token
                                THEN "StrategyMismatch"
                           ELSE "")
           /\ last'.err # "" => UNCHANGED worldVars
           /\ last'.err = "" => yieldStrategy' = st /\ treasury' = tr /\ owner' = last'.sender

\* C37: construction fails with InvalidAddress when the token, the backend or
\* the treasury is the zero address and with StrategyMismatch when the
\* backend's vault() is not the ledger or its usdc() is not the token, and it
\* succeeds otherwise; in every reachable state of a deployed ledger the
\* active backend is a deployed contract, not the zero address, whose vault()
\* is the ledger and whose usdc() is the ledger's token.
C37_ActiveBackendWired == [][C37_Step]_vars /\ []C37_Wired

\* The ledger was deployed with the second treasury and has migrated, with a
\* stake outstanding, to a second correctly bound backend.
C37_Witness ==
    /\ Succeeded("migrateYieldStrategy")
    /\ yieldStrategy = "newStrategy"
    /\ treasury = "newTreasury"
    /\ totalPrincipal = STAKE_AMOUNT
    /\ owner = "owner"
    /\ now = 1

\* C38: a migrateYieldStrategy in which the old backend's withdrawAll returns
\* less than totalPrincipal fails and leaves the active backend, every
\* balance and everything else unchanged; and after every successful
\* migration the new backend holds at least totalPrincipal.
C38_Step ==
    LET r == strategy_withdrawAll(Cur, yieldStrategy, Ledger) IN
    /\ (last'.op = "migrateYieldStrategy" /\ r.err = "" /\ r.ret < totalPrincipal) =>
           /\ last'.err # ""
           /\ UNCHANGED worldVars
           /\ events' = <<>>
    /\ (Succeeded("migrateYieldStrategy")') =>
           /\ r.ret >= totalPrincipal
           /\ bal'[yieldStrategy'] >= totalPrincipal'

C38_ShortfallFailsMigration == [][C38_Step]_vars

\* The accounting invariants in world s, on a NullYieldStrategy.
AccountingHolds(s) ==
    /\ s.totalPrincipal = SumOver(s.totalStaked, AnyUID)
    /\ s.totalPrincipal = strategy_principal(s, s.yieldStrategy)
    /\ \A c \in AnyUID :
          /\ s.totalStaked[c] = STAKE_AMOUNT * s.stakerCount[c]
          /\ s.stakerCount[c] = Cardinality({u \in Callers : s.stakes[c][u].amount # 0})

\* The ledger may pull one stake from the depositor, who holds it.
CanPayStake(s, u) ==
    s.bal[u] >= STAKE_AMOUNT /\ allowanceOf(s, u, Ledger) >= STAKE_AMOUNT

\* From every state and for every Staked pair: unstake succeeds and refunds
\* the balance of a new stake; the new stake succeeds exactly when the
\* depositor's allowance covers it, and so does the stake of a second cycle.
C39_Cycle ==
    \A u \in Users, c \in UIDs :
        stakes[c][u].amount # 0 =>
            \A t \in now..MaxTime :
                LET r1 == unstake(Cur, u, c)
                    r2 == stake(r1.s, u, c, t)
                    r3 == unstake(r2.s, u, c)
                    r4 == stake(r3.s, u, c, MaxTime)
                IN /\ r1.err = "" /\ r1.s.stakes[c][u] = NoStake /\ AccountingHolds(r1.s)
                   /\ r1.s.bal[u] >= STAKE_AMOUNT
                   /\ IF ~CanPayStake(r1.s, u)
                      THEN r2.err = "ERC20InsufficientAllowance"
                      ELSE /\ r2.err = "" /\ AccountingHolds(r2.s)
                           /\ r2.s.stakes[c][u] =
                                  [amount |-> STAKE_AMOUNT, timestamp |-> t]
                           /\ r2.s.bal[u] = bal[u]
                           /\ Books(r2.s) =
                                  [Books(Cur) EXCEPT !.stakes[c][u].timestamp = t]
                           /\ r3.err = "" /\ r3.s.stakes[c][u] = NoStake
                           /\ AccountingHolds(r3.s)
                           /\ IF ~CanPayStake(r3.s, u)
                              THEN r4.err = "ERC20InsufficientAllowance"
                              ELSE /\ r4.err = "" /\ AccountingHolds(r4.s)
                                   /\ r4.s.stakes[c][u] =
                                          [amount |-> STAKE_AMOUNT, timestamp |-> MaxTime]

\* A stake that directly follows the successful unstake of the same
\* depositor on the same claim.
C39_Step ==
    (Succeeded("unstake") /\ last'.op = "stake" /\ last'.sender = last.sender
       /\ last'.arg = last.arg) =>
        IF CanPayStake(Cur, last.sender)
        THEN /\ last'.err = ""
             /\ stakes'[last.arg][last.sender] =
                    [amount |-> STAKE_AMOUNT, timestamp |-> now]
             /\ AccountingHolds(Cur')
        ELSE /\ last'.err = "ERC20InsufficientAllowance"
             /\ UNCHANGED worldVars

\* C39: after a successful unstake of a claim the same depositor, who holds
\* the refund, can stake on the claim again whenever the allowance the
\* depositor has given the ledger covers STAKE_AMOUNT, and only then; the new
\* stake creates a record with the time of the new stake; the pair can go
\* from Staked to NoStake and back repeatedly, and the accounting invariants
\* hold after each call.
C39_StakeCanBeReopened == [][C39_Step]_vars /\ []C39_Cycle

\* In the last block a depositor whose allowance covers exactly one more
\* stake has left a claim, and a stake of the same depositor on the same claim
\* succeeds from here with a record of this block and uses the allowance up.
C39_Witness ==
    /\ Succeeded("unstake")
    /\ now = MaxTime
    /\ stakes[last.arg][last.sender] = NoStake
    /\ allowanceOf(Cur, last.sender, Ledger) = STAKE_AMOUNT
    /\ LET r == stake(Cur, last.sender, last.arg, now) IN
          /\ r.err = ""
          /\ r.s.stakes[last.arg][last.sender].timestamp = MaxTime
          /\ allowanceOf(r.s, last.sender, Ledger) = 0

\* What the outside holder, who starts with one DonationUnit, has sent to the
\* ledger or to a backend so far.
SentDirectly == DonationUnit - bal[Donor]

\* What rescueTokens of the ledger has paid to its recipient so far.
Rescued == bal["owner"]

\* The balances that a step changes add up to what they added up to before
\* it: the sum over all holders is unchanged.
C40_Step ==
    LET changed == {a \in Addresses : bal'[a] # bal[a]} IN
    SumOver(bal', changed) = SumOver(bal, changed)

C40_OriginalHoldings ==
    bal[Ledger] + bal[yieldStrategy] = totalPrincipal + SentDirectly

\* C40 as stated: every operation leaves the sum of all balances unchanged,
\* and the ledger and the active backend together always hold totalPrincipal
\* plus the tokens sent to them directly.
C40_LedgerAndActiveHoldAllSent == [][C40_Step]_vars /\ []C40_OriginalHoldings

C40_Holdings ==
    /\ bal[Ledger] + SumOver(bal, deployed) + Rescued = totalPrincipal + SentDirectly
    /\ bal[yieldStrategy] >= totalPrincipal
    /\ bal[Ledger] + bal[yieldStrategy] <= totalPrincipal + SentDirectly

\* C40: every operation leaves the sum of all token balances unchanged; the
\* ledger and all its NullYieldStrategy backends, the replaced ones included,
\* together with what rescueTokens has paid out hold totalPrincipal plus the
\* tokens sent to them directly; the active backend alone holds at least
\* totalPrincipal, and the ledger and the active backend hold no more than
\* totalPrincipal plus what was sent directly.
C40_TokenConservation == [][C40_Step]_vars /\ []C40_Holdings

\* After a migration with a stake outstanding, the tokens that were sent to
\* the first backend directly are still on it, and the new backend holds the
\* stake.
C40_Witness ==
    /\ Succeeded("migrateYieldStrategy")
    /\ yieldStrategy = "newStrategy"
    /\ totalPrincipal = STAKE_AMOUNT
    /\ bal["newStrategy"] = STAKE_AMOUNT
    /\ bal["strategy"] = DonationUnit
    /\ bal[Donor] = 0

====
